---- MODULE Spec2Model ----
(***************************************************************************)
(* Event-to-alert pipeline of the Solana meme-coin machine:                *)
(*   - the LRU deduplication caches        (src/src/utils/dedupe.js)       *)
(*   - the webhook event normalizer        (src/src/helius.js)             *)
(*   - the scoring function                (src/unnamed/part_002)          *)
(*   - the alert decision and dispatch     (src/unnamed/part_002, part_004)*)
(*   - the webhook endpoint and the swap store (src/src/server.js,         *)
(*                                           src/src/supabase.js)          *)
(*   - the swap metrics aggregation        (src/src/supabase.js)           *)
(* A JavaScript Map is modelled as the sequence of its keys in insertion   *)
(* order (the order Map.keys() iterates); null/undefined is NULL.          *)
(***************************************************************************)
EXTENDS Integers, Sequences, FiniteSets, TLC

VARIABLES
    signatureCache,   \* keys of signatureCache.cache, oldest first
    mintCache,        \* keys of mintCache.cache, oldest first
    eventCache,       \* keys of eventCache.cache, oldest first
    op,               \* history: the last exported dedupe call, its key and return value
    recency,          \* history: the signature keys recorded and not removed since,
                      \*          ordered by their last touch (oldest first)
    firstAdded,       \* history: first key marked into an empty signature cache by a
                      \*          run of marks of distinct keys (0 when the run is broken)
    nAdded,           \* history: length of that run of marks
    now,              \* the wall clock (Date.now()), in epoch seconds
    results,          \* what the last parseWebhookPayload call returned
    trace,            \* history: per transaction of that call, the transaction, whether
                      \*          its signature was recorded when its turn came, and
                      \*          what parseTransaction returned for it
    tokenState,       \* the token state under evaluation
    first,            \* history: the first score(tokenState) call: when, and its result
    last,             \* history: the latest score() call: its input, when, its result
    interleaved,      \* history: another input was scored since the first call
    alert,            \* the row of the alerts table for the token, None before it exists
    config,           \* whether sendTokenAlert may send: "on", "noChatId" or "disabled"
    messages,         \* number of messages created in the chat
    cycle,            \* history: the last alert step: its input, the row before it,
                      \*          what shouldAlert returned and what was dispatched
    followed,         \* history: the decisions so far while the cycles are those of
                      \*          the alert-state scenario
    swapRows,         \* the swaps table: per signature, the number of rows holding it
    requests,         \* history: the webhook requests received, in order of arrival:
                      \*          what was sent, the response, and how the processing
                      \*          of the payload went
    restarts,         \* number of restarts of the process so far
    aggregated,       \* history: the last getSwapMetrics call: the swaps its query
                      \*          returned, the clock, and the snapshot it returned
    retried,          \* history: the last retryWithBackoff call: the function it was
                      \*          given, its calls and sleeps in order, how it ended
    tokenRow,         \* the row of the tokens table of the token being enriched
    enrichment,       \* history: the last enrichToken call: what the API answered
                      \*          to each fetch, the calls made, the errors collected
    mainPc,           \* where main() is: the await it is suspended at, or "started"
    dbTest,           \* history: what testConnection returned to main, None before
    listening,        \* the webhook server is listening
    shutdownPc,       \* where shutdown() is: "none", "closing" (awaiting stopServer)
                      \*          or "exited"
    exitCode,         \* the code given to process.exit, None while the process lives
    workers,          \* per worker module: isRunning, shouldStop, and its loops in
                      \*          flight, each in a batch or asleep with time remaining
    lastBatch,        \* history: the last batch that ended: the worker, its tokens
                      \*          and what became of them
    lastCall,         \* history: the last call of a start or stop function from
                      \*          outside main and shutdown
    calls,            \* number of those calls
    interrupted,      \* history: the workers that had a batch in flight at process.exit
    lru,              \* an LRUCache object: its maxSize and the keys of its cache,
                      \*          oldest first; None before it is constructed
    lruOp,            \* history: the last method called on it, its key and return value
    callbacks         \* per webhook request, the callback it gave to setImmediate:
                      \*          whether it has begun, the storage calls it has yet
                      \*          to await, and (history) what its parse returned

cacheVars == <<signatureCache, mintCache, eventCache, op, recency, firstAdded, nAdded>>

parseVars == <<results, trace>>

scoreVars == <<tokenState, first, last, interleaved>>

alertVars == <<alert, config, messages, cycle, followed>>

serverVars == <<swapRows, requests, restarts>>

metricsVars == <<aggregated>>

enrichVars == <<retried, tokenRow, enrichment>>

workerVars == <<mainPc, dbTest, listening, shutdownPc, exitCode, workers, lastBatch,
                lastCall, calls, interrupted>>

lruVars == <<lru, lruOp>>

deliveryVars == <<callbacks>>

vars == <<cacheVars, now, parseVars, scoreVars, alertVars, serverVars, metricsVars,
          enrichVars, workerVars, lruVars, deliveryVars>>

NULL == "null"

----------------------------------------------------------------------------
(* Bounds of the model *)

NumSigs == 3          \* distinct transaction signatures offered to the caches
SigCacheMax == 2      \* capacity of signatureCache in the model (50000 in the code)
SmallCacheMax == 2    \* capacity of mintCache and eventCache in the model (10000, 20000)

Sigs == 1..NumSigs
Mints == {"mintA", "mintB", "mintC"}
EventIds == {"ev1", "ev2", "ev3"}

----------------------------------------------------------------------------
(* LRUCache *)

Range(s) == {s[i] : i \in DOMAIN s}

\* Map.delete(key): the remaining keys keep their order
MapDelete(c, key) == SelectSeq(c, LAMBDA x : x # key)

\* Map.set(key, value) on a map that does not hold key appends it
MapSet(c, key) == IF key \in Range(c) THEN c ELSE Append(c, key)

\* LRUCache.has: the cache after the call and the value returned
LRUHasNoPromote(c, key) ==
    [cache |-> c, ret |-> key \in Range(c)]

LRUHas(c, key) ==
    IF key \notin Range(c)
    THEN [cache |-> c, ret |-> FALSE]
    ELSE [cache |-> MapSet(MapDelete(c, key), key), ret |-> TRUE]

\* LRUCache.add
LRUAddEvictNewest(c, key, maxSize) ==
    IF key \in Range(c)
    THEN MapSet(MapDelete(c, key), key)
    ELSE IF Len(c) >= maxSize
         THEN MapSet(IF c = <<>> THEN c ELSE SubSeq(c, 1, Len(c) - 1), key)
         ELSE MapSet(c, key)

LRUAddNoTouch(c, key, maxSize) ==
    IF key \in Range(c)
    THEN c
    ELSE IF Len(c) >= maxSize
         THEN MapSet(IF c = <<>> THEN c ELSE Tail(c), key)
         ELSE MapSet(c, key)

LRUAddUnbounded(c, key, maxSize) ==
    MapSet(MapDelete(c, key), key)

LRUAdd(c, key, maxSize) ==
    IF key \in Range(c)
    THEN MapSet(MapDelete(c, key), key)
    ELSE IF Len(c) >= maxSize
         THEN MapSet(IF c = <<>> THEN c ELSE Tail(c), key)   \* delete keys().next().value
         ELSE MapSet(c, key)

\* LRUCache.get: same promotion as has, returns the stored value (always true here)
LRUGet(c, key) ==
    IF key \notin Range(c)
    THEN [cache |-> c, ret |-> NULL]
    ELSE [cache |-> MapSet(MapDelete(c, key), key), ret |-> TRUE]

LRUDelete(c, key) == [cache |-> MapDelete(c, key), ret |-> key \in Range(c)]

LRUClear(c) == <<>>

LRUSize(c) == Len(c)

\* checkAndMarkSignature as a function of the cache
CheckAndMarkNoAdd(c, key) ==
    [cache |-> LRUHas(c, key).cache, ret |-> ~LRUHas(c, key).ret]

CheckAndMark(c, key) ==
    IF LRUHas(c, key).ret
    THEN [cache |-> LRUHas(c, key).cache, ret |-> FALSE]
    ELSE [cache |-> LRUAdd(LRUHas(c, key).cache, key, SigCacheMax), ret |-> TRUE]

----------------------------------------------------------------------------
(* History of the signature cache, kept independently of the Map order *)

\* a touch of key (a hit of has/get, or an add) makes it the most recent; keys
\* that left the cache in the step are forgotten
Touched(rec, key, after) ==
    Append(SelectSeq(rec, LAMBDA x : x # key /\ x \in Range(after)), key)

\* a mark of key: the run of distinct marks into an empty cache goes on, or breaks
RunFirst(key, before) ==
    IF before = <<>> /\ nAdded = 0 THEN key
    ELSE IF firstAdded # 0 /\ key \notin Range(before) THEN firstAdded
    ELSE 0

RunLen(key, before) ==
    IF RunFirst(key, before) = 0 THEN 0
    ELSE IF nAdded > SigCacheMax THEN 0 ELSE nAdded + 1

----------------------------------------------------------------------------
(* The exported dedupe functions *)

HasSeenSignature(signature) ==
    LET r == LRUHas(signatureCache, signature) IN
    /\ signatureCache' = r.cache
    /\ op' = [name |-> "hasSeenSignature", key |-> signature, ret |-> r.ret]
    /\ recency' = IF r.ret THEN Touched(recency, signature, r.cache) ELSE recency
    /\ firstAdded' = 0
    /\ nAdded' = 0
    /\ UNCHANGED <<mintCache, eventCache>>

MarkSignatureSeen(signature) ==
    LET c == LRUAdd(signatureCache, signature, SigCacheMax) IN
    /\ signatureCache' = c
    /\ op' = [name |-> "markSignatureSeen", key |-> signature, ret |-> NULL]
    /\ recency' = Touched(recency, signature, c)
    /\ firstAdded' = IF RunLen(signature, signatureCache) = 0 THEN 0
                     ELSE RunFirst(signature, signatureCache)
    /\ nAdded' = RunLen(signature, signatureCache)
    /\ UNCHANGED <<mintCache, eventCache>>

CheckAndMarkSignature(signature) ==
    LET r == CheckAndMark(signatureCache, signature) IN
    /\ signatureCache' = r.cache
    /\ op' = [name |-> "checkAndMarkSignature", key |-> signature, ret |-> r.ret]
    /\ recency' = Touched(recency, signature, r.cache)
    /\ firstAdded' = IF RunLen(signature, signatureCache) = 0 THEN 0
                     ELSE RunFirst(signature, signatureCache)
    /\ nAdded' = RunLen(signature, signatureCache)
    /\ UNCHANGED <<mintCache, eventCache>>

HasSeenMint(mint) ==
    LET r == LRUHas(mintCache, mint) IN
    /\ mintCache' = r.cache
    /\ op' = [name |-> "hasSeenMint", key |-> mint, ret |-> r.ret]
    /\ UNCHANGED <<signatureCache, eventCache, recency, firstAdded, nAdded>>

MarkMintSeen(mint) ==
    /\ mintCache' = LRUAdd(mintCache, mint, SmallCacheMax)
    /\ op' = [name |-> "markMintSeen", key |-> mint, ret |-> NULL]
    /\ UNCHANGED <<signatureCache, eventCache, recency, firstAdded, nAdded>>

HasProcessedEvent(eventId) ==
    LET r == LRUHas(eventCache, eventId) IN
    /\ eventCache' = r.cache
    /\ op' = [name |-> "hasProcessedEvent", key |-> eventId, ret |-> r.ret]
    /\ UNCHANGED <<signatureCache, mintCache, recency, firstAdded, nAdded>>

MarkEventProcessed(eventId) ==
    /\ eventCache' = LRUAdd(eventCache, eventId, SmallCacheMax)
    /\ op' = [name |-> "markEventProcessed", key |-> eventId, ret |-> NULL]
    /\ UNCHANGED <<signatureCache, mintCache, recency, firstAdded, nAdded>>

ClearAllCaches ==
    /\ signatureCache' = LRUClear(signatureCache)
    /\ mintCache' = LRUClear(mintCache)
    /\ eventCache' = LRUClear(eventCache)
    /\ op' = [name |-> "clearAllCaches", key |-> NULL, ret |-> NULL]
    /\ recency' = <<>>
    /\ firstAdded' = 0
    /\ nAdded' = 0

----------------------------------------------------------------------------
(* Event normalizer (helius.js).  An optional value (a field that may be    *)
(* missing, null or undefined) is a sequence of length 0 or 1.              *)

None == <<>>
Some(x) == <<x>>

WSOL_MINT == "So11111111111111111111111111111111111111112"
STABLECOIN_MINTS == {"EPjFWdd5AufqSSqeM2qN1xzybapC8G4wEGGkZwyTDt1v",     \* USDC
                     "Es9vMFrzaCERmJfrF4H2FYD4KCoNkY11McCe8BenwNYB"}     \* USDT

\* program ids are written by their registry names
DEX_PROGRAMS == {"RAYDIUM_V4", "RAYDIUM_CLMM", "RAYDIUM_CP", "ORCA_WHIRLPOOL",
                 "METEORA_DLMM", "METEORA_POOLS", "PUMP_FUN", "PUMP_FUN_AMM",
                 "JUPITER_V6", "MOONSHOT"}

\* a quote test that knows the native coin only
IsQuoteMintNativeOnly(mint) == mint = WSOL_MINT

IsQuoteMint(mint) == mint = WSOL_MINT \/ mint \in STABLECOIN_MINTS

\* String.toUpperCase and String.includes on the source names of the model
ToUpperCase(str) ==
    CASE str = "raydium" -> "RAYDIUM"
      [] str = "orca" -> "ORCA"
      [] str = "pump.fun" -> "PUMP.FUN"
      [] str = "swap" -> "SWAP"
      [] OTHER -> str

Includes(str, word) ==
    CASE word = "RAYDIUM" -> str \in {"RAYDIUM"}
      [] word = "ORCA" -> str \in {"ORCA"}
      [] word = "METEORA" -> str \in {"METEORA"}
      [] word = "PUMP" -> str \in {"PUMP_FUN", "PUMP.FUN"}
      [] OTHER -> FALSE

\* a source that is present but is not a string: toUpperCase is not a function
NotAString == "#number"

\* isDexPool: a placeholder in the code
IsDexPool(address) == FALSE

\* the program id of the first instruction naming a DEX program, if any
HasDexInstruction(ixs) ==
    \E i \in DOMAIN ixs : ixs[i].programId \in DEX_PROGRAMS

\* identifyTransactionType: [threw, type]
IdentifyTransactionType(tx) ==
    LET instructions == IF tx.instructions # None THEN tx.instructions[1] ELSE <<>>
    IN
    IF tx.source = NotAString
    THEN [threw |-> TRUE, type |-> NULL]
    ELSE IF /\ tx.source # NULL
            /\ \/ Includes(ToUpperCase(tx.source), "RAYDIUM")
               \/ Includes(ToUpperCase(tx.source), "ORCA")
               \/ Includes(ToUpperCase(tx.source), "METEORA")
    THEN [threw |-> FALSE, type |-> "SWAP"]
    ELSE IF tx.source # NULL /\ Includes(ToUpperCase(tx.source), "PUMP")
    THEN [threw |-> FALSE, type |-> "SWAP"]
    ELSE IF tx.type # NULL
    THEN [threw |-> FALSE, type |-> ToUpperCase(tx.type)]
    ELSE IF HasDexInstruction(instructions)
    THEN [threw |-> FALSE, type |-> "SWAP"]
    ELSE IF tx.tokenTransfers # None /\ Len(tx.tokenTransfers[1]) > 0
    THEN [threw |-> FALSE, type |-> "TRANSFER"]
    ELSE [threw |-> FALSE, type |-> "UNKNOWN"]

\* the list of token transfers ([] when the field is missing) and whether
\* reading a field of one of them throws (a null element)
TokenTransfers(tx) == IF tx.tokenTransfers # None THEN tx.tokenTransfers[1] ELSE <<>>

HasNullTransfer(tx) == \E i \in DOMAIN TokenTransfers(tx) : TokenTransfers(tx)[i] = None

\* parseFloat(x) || null on the amounts of the model (0 stands for null)
ParseAmount(x) == x

\* a scan that takes the side from the last subject transfer alone
RECURSIVE SwapScanSideOfLast(_, _)
SwapScanSideOfLast(tx, n) ==
    IF n = 0
    THEN [tokenMint |-> NULL, side |-> "unknown", amountToken |-> 0,
          amountSol |-> <<0, 1>>, buyer |-> NULL, seller |-> NULL]
    ELSE LET acc == SwapScanSideOfLast(tx, n - 1)
             transfer == TokenTransfers(tx)[n][1]
         IN
         IF IsQuoteMint(transfer.mint)
         THEN IF transfer.tokenAmount # 0
              THEN [acc EXCEPT !.amountSol = <<ParseAmount(transfer.tokenAmount), 1>>]
              ELSE acc
         ELSE LET found == [acc EXCEPT !.tokenMint = transfer.mint,
                                       !.amountToken = ParseAmount(transfer.tokenAmount),
                                       !.side = "unknown", !.buyer = NULL,
                                       !.seller = NULL]
              IN
              IF transfer.toUserAccount = tx.feePayer
              THEN [found EXCEPT !.side = "buy", !.buyer = tx.feePayer]
              ELSE IF transfer.fromUserAccount = tx.feePayer
              THEN [found EXCEPT !.side = "sell", !.seller = tx.feePayer]
              ELSE found

\* the loop of parseSwapTransaction over tokenTransfers, transfers 1..n done
RECURSIVE SwapScan(_, _)
SwapScan(tx, n) ==
    IF n = 0
    THEN [tokenMint |-> NULL, side |-> "unknown", amountToken |-> 0,
          amountSol |-> <<0, 1>>, buyer |-> NULL, seller |-> NULL]
    ELSE LET acc == SwapScan(tx, n - 1)
             transfer == TokenTransfers(tx)[n][1]
         IN
         IF IsQuoteMint(transfer.mint)
         THEN IF transfer.tokenAmount # 0
              THEN [acc EXCEPT !.amountSol = <<ParseAmount(transfer.tokenAmount), 1>>]
              ELSE acc
         ELSE LET found == [acc EXCEPT !.tokenMint = transfer.mint,
                                       !.amountToken = ParseAmount(transfer.tokenAmount)]
              IN
              IF transfer.toUserAccount = tx.feePayer
              THEN [found EXCEPT !.side = "buy", !.buyer = tx.feePayer]
              ELSE IF transfer.fromUserAccount = tx.feePayer
              THEN [found EXCEPT !.side = "sell", !.seller = tx.feePayer]
              ELSE found

Abs(x) == IF x < 0 THEN -x ELSE x

RECURSIVE SumAbs(_)
SumAbs(amounts) ==
    IF amounts = <<>> THEN 0 ELSE Abs(Head(amounts)) + SumAbs(Tail(amounts))

LAMPORTS_PER_SOL == 1000000000

\* new Date(tx.timestamp * 1000).toISOString(), or new Date().toISOString() when
\* there is no timestamp; instants are kept as epoch seconds
EventTime(tx, clock) == IF tx.timestamp # 0 THEN tx.timestamp ELSE clock

\* parseSwapTransaction: [threw, swap], swap an optional record; amount_sol is
\* the fraction <<numerator, denominator>>, <<0, 1>> standing for null
ParseSwapTransaction(tx, clock) ==
    IF HasNullTransfer(tx)
    THEN [threw |-> TRUE, swap |-> None]
    ELSE
    LET scan == SwapScan(tx, Len(TokenTransfers(tx)))
        totalSol == IF tx.nativeTransfers # None THEN SumAbs(tx.nativeTransfers[1]) ELSE 0
        amountSol == IF totalSol > 0 /\ scan.amountSol[1] = 0
                     THEN <<totalSol, LAMPORTS_PER_SOL>>
                     ELSE scan.amountSol
        ev == tx.swapEvent
        tokenMint == IF scan.tokenMint # NULL \/ ev = None THEN scan.tokenMint
                     ELSE IF ev[1].tokenOutputMint # NULL THEN ev[1].tokenOutputMint
                     ELSE ev[1].tokenInputMint
        side == IF ev # None /\ ev[1].nativeOutput # 0 THEN "sell"
                ELSE IF ev # None /\ ev[1].nativeInput # 0 THEN "buy"
                ELSE scan.side
        seller == IF ev # None /\ ev[1].nativeOutput # 0 THEN tx.feePayer ELSE scan.seller
        buyer == IF ev # None /\ ev[1].nativeOutput = 0 /\ ev[1].nativeInput # 0
                 THEN tx.feePayer ELSE scan.buyer
    IN
    IF tokenMint = NULL
    THEN [threw |-> FALSE, swap |-> None]
    ELSE IF IsQuoteMint(tokenMint)
    THEN [threw |-> FALSE, swap |-> None]
    ELSE [threw |-> FALSE,
          swap |-> Some([token_mint |-> tokenMint,
                         signature |-> tx.signature,
                         ts |-> EventTime(tx, clock),
                         side |-> side,
                         amount_token |-> scan.amountToken,
                         amount_sol |-> amountSol,
                         buyer |-> buyer,
                         seller |-> seller,
                         pool_address |-> NULL,
                         meta |-> [source |-> IF tx.source # NULL THEN tx.source
                                              ELSE "unknown",
                                   type |-> tx.type,
                                   fee_payer |-> tx.feePayer]])]

\* the last element of seq satisfying Test, or dflt
LastWhere(seq, Test(_), dflt) ==
    LET hits == SelectSeq(seq, Test) IN IF hits = <<>> THEN dflt ELSE hits[Len(hits)]

FirstWhere(seq, Test(_), dflt) ==
    LET hits == SelectSeq(seq, Test) IN IF hits = <<>> THEN dflt ELSE hits[1]

\* String.toLowerCase of a registry name
ToLowerCase(name) ==
    CASE name = "RAYDIUM_V4" -> "raydium_v4"
      [] name = "RAYDIUM_CLMM" -> "raydium_clmm"
      [] name = "RAYDIUM_CP" -> "raydium_cp"
      [] name = "ORCA_WHIRLPOOL" -> "orca_whirlpool"
      [] name = "METEORA_DLMM" -> "meteora_dlmm"
      [] name = "METEORA_POOLS" -> "meteora_pools"
      [] name = "PUMP_FUN" -> "pump_fun"
      [] name = "PUMP_FUN_AMM" -> "pump_fun_amm"
      [] name = "JUPITER_V6" -> "jupiter_v6"
      [] name = "MOONSHOT" -> "moonshot"
      [] OTHER -> name

\* parsePoolCreation: [threw, pool]
ParsePoolCreation(tx, clock) ==
    IF HasNullTransfer(tx)
    THEN [threw |-> TRUE, pool |-> None]
    ELSE
    LET ixs == IF tx.instructions # None THEN tx.instructions[1] ELSE <<>>
        dexIx == LastWhere(ixs, LAMBDA ix : ix.programId \in DEX_PROGRAMS,
                           [programId |-> "unknown", accounts |-> <<>>])
        poolIx == FirstWhere(ixs, LAMBDA ix : Len(ix.accounts) > 0,
                             [programId |-> "unknown", accounts |-> <<NULL>>])
        transfers == TokenTransfers(tx)
        quote == LastWhere(transfers, LAMBDA t : IsQuoteMint(t[1].mint),
                           Some([mint |-> NULL]))
        base == LastWhere(transfers, LAMBDA t : ~IsQuoteMint(t[1].mint),
                          Some([mint |-> NULL]))
    IN
    IF base[1].mint = NULL
    THEN [threw |-> FALSE, pool |-> None]
    ELSE [threw |-> FALSE,
          pool |-> Some([token_mint |-> base[1].mint,
                         pool_address |-> poolIx.accounts[1],
                         dex |-> ToLowerCase(dexIx.programId),
                         base_mint |-> base[1].mint,
                         quote_mint |-> quote[1].mint,
                         created_at |-> EventTime(tx, clock),
                         meta |-> [signature |-> tx.signature,
                                   fee_payer |-> tx.feePayer]])]

\* parseTokenFromTransfer: [threw, token]
ParseTokenFromTransfer(tx) ==
    LET transfers == TokenTransfers(tx)
        firstNull == FirstWhere([i \in DOMAIN transfers |-> i],
                                LAMBDA i : transfers[i] = None, Len(transfers) + 1)
        firstMeme == FirstWhere([i \in DOMAIN transfers |-> i],
                                LAMBDA i : transfers[i] # None
                                           /\ ~IsQuoteMint(transfers[i][1].mint),
                                Len(transfers) + 1)
    IN
    IF firstNull < firstMeme
    THEN [threw |-> TRUE, token |-> None]
    ELSE IF firstMeme > Len(transfers)
    THEN [threw |-> FALSE, token |-> None]
    ELSE [threw |-> FALSE,
          token |-> Some([mint |-> transfers[firstMeme][1].mint, source |-> "transfer"])]

\* the mints of the token balance changes of accountData, in order
RECURSIVE BalanceMints(_)
BalanceMints(accountData) ==
    IF accountData = <<>> THEN <<>>
    ELSE Head(accountData).tokenBalanceMints \o BalanceMints(Tail(accountData))

\* extractMintFromTransaction: [threw, token]
ExtractMintFromTransaction(tx) ==
    LET transfers == TokenTransfers(tx)
        firstNull == FirstWhere([i \in DOMAIN transfers |-> i],
                                LAMBDA i : transfers[i] = None, Len(transfers) + 1)
        firstMeme == FirstWhere([i \in DOMAIN transfers |-> i],
                                LAMBDA i : /\ transfers[i] # None
                                           /\ transfers[i][1].mint # NULL
                                           /\ ~IsQuoteMint(transfers[i][1].mint),
                                Len(transfers) + 1)
        changes == IF tx.accountData # None THEN BalanceMints(tx.accountData[1]) ELSE <<>>
        changed == FirstWhere(changes, LAMBDA m : m # NULL /\ ~IsQuoteMint(m), NULL)
    IN
    IF firstNull < firstMeme
    THEN [threw |-> TRUE, token |-> None]
    ELSE IF firstMeme <= Len(transfers)
    THEN [threw |-> FALSE,
          token |-> Some([mint |-> transfers[firstMeme][1].mint, source |-> "transaction"])]
    ELSE IF changed # NULL
    THEN [threw |-> FALSE, token |-> Some([mint |-> changed, source |-> "account_data"])]
    ELSE [threw |-> FALSE, token |-> None]

EmptyParsed == [threw |-> FALSE, token |-> None, swap |-> None, pool |-> None]

Thrown == [threw |-> TRUE, token |-> None, swap |-> None, pool |-> None]

\* a classification by the structure of the event alone
ClassifyByStructure(tx) == IdentifyTransactionType(tx)

\* tx.type || identifyTransactionType(tx): [threw, type]
Classify(tx) ==
    IF tx.type # NULL THEN [threw |-> FALSE, type |-> tx.type]
    ELSE IdentifyTransactionType(tx)

\* the type switch of parseTransaction
ExtractAs(type, tx, clock) ==
    IF type = "SWAP"
    THEN LET r == ParseSwapTransaction(tx, clock) IN
         IF r.threw THEN Thrown
         ELSE [EmptyParsed EXCEPT
                 !.swap = r.swap,
                 !.token = IF r.swap # None
                           THEN Some([mint |-> r.swap[1].token_mint, source |-> "swap"])
                           ELSE None]
    ELSE IF type \in {"CREATE_POOL", "INITIALIZE_POOL"}
    THEN LET r == ParsePoolCreation(tx, clock) IN
         IF r.threw THEN Thrown
         ELSE [EmptyParsed EXCEPT
                 !.pool = r.pool,
                 !.token = IF r.pool # None
                           THEN Some([mint |-> r.pool[1].token_mint,
                                      source |-> "pool_creation"])
                           ELSE None]
    ELSE IF type \in {"TRANSFER", "TOKEN_MINT"}
    THEN LET r == ParseTokenFromTransfer(tx) IN
         IF r.threw THEN Thrown ELSE [EmptyParsed EXCEPT !.token = r.token]
    ELSE LET r == ExtractMintFromTransaction(tx) IN
         IF r.threw THEN Thrown ELSE [EmptyParsed EXCEPT !.token = r.token]

\* parseTransaction after the dedup gate: the type, then the switch
ExtractByType(tx, clock) ==
    LET identified == Classify(tx) IN
    IF identified.threw THEN Thrown
    ELSE ExtractAs(identified.type, tx, clock)

\* parseTransaction on an optional transaction: the signature cache after the
\* call and what was returned (or that it threw)
ParseTransactionNoGate(cache, otx, clock) ==
    IF otx = None
    THEN [cache |-> cache, parsed |-> EmptyParsed]
    ELSE [cache |-> IF otx[1].signature # 0
                    THEN CheckAndMark(cache, otx[1].signature).cache ELSE cache,
          parsed |-> ExtractByType(otx[1], clock)]

\* a gate that every event goes through, with or without a signature
ParseTransactionGateAll(cache, otx, clock) ==
    IF otx = None
    THEN [cache |-> cache, parsed |-> EmptyParsed]
    ELSE LET gate == CheckAndMark(cache, otx[1].signature) IN
         IF ~gate.ret
         THEN [cache |-> gate.cache, parsed |-> EmptyParsed]
         ELSE [cache |-> gate.cache, parsed |-> ExtractByType(otx[1], clock)]

\* a gate that records the signature only once a record was extracted
ParseTransactionMarkAfter(cache, otx, clock) ==
    IF otx = None
    THEN [cache |-> cache, parsed |-> EmptyParsed]
    ELSE LET tx == otx[1]
             seen == LRUHas(cache, tx.signature)
             parsed == ExtractByType(tx, clock)
         IN
         IF tx.signature # 0 /\ seen.ret
         THEN [cache |-> seen.cache, parsed |-> EmptyParsed]
         ELSE [cache |-> IF tx.signature # 0 /\ parsed # Thrown /\ parsed # EmptyParsed
                         THEN LRUAdd(cache, tx.signature, SigCacheMax) ELSE cache,
               parsed |-> parsed]

ParseTransaction(cache, otx, clock) ==
    IF otx = None
    THEN [cache |-> cache, parsed |-> EmptyParsed]
    ELSE LET tx == otx[1]
             gate == CheckAndMark(cache, tx.signature)
         IN
         IF tx.signature # 0 /\ ~gate.ret
         THEN [cache |-> gate.cache, parsed |-> EmptyParsed]
         ELSE [cache |-> IF tx.signature # 0 THEN gate.cache ELSE cache,
               parsed |-> ExtractByType(tx, clock)]

\* what one transaction adds to the lists of parseWebhookPayload
Pushed(list, opt) == IF opt # None THEN Append(list, opt[1]) ELSE list

\* one turn of the loop of parseWebhookPayload: acc holds the cache, the result
\* lists and the history of the call so far
ParseStep(acc, otx, clock) ==
    LET sig == IF otx = None THEN 0 ELSE otx[1].signature
        r == ParseTransaction(acc.cache, otx, clock)
    IN
    [cache |-> r.cache,
     recency |-> IF sig # 0 THEN Touched(acc.recency, sig, r.cache) ELSE acc.recency,
     results |-> [tokens |-> Pushed(acc.results.tokens, r.parsed.token),
                  swaps |-> Pushed(acc.results.swaps, r.parsed.swap),
                  pools |-> Pushed(acc.results.pools, r.parsed.pool)],
     trace |-> Append(acc.trace,
                      [tx |-> otx,
                       recorded |-> sig # 0 /\ sig \in Range(acc.recency),
                       parsed |-> r.parsed])]

RECURSIVE ParseLoop(_, _, _)
ParseLoop(acc, transactions, clock) ==
    IF transactions = <<>> THEN acc
    ELSE ParseLoop(ParseStep(acc, Head(transactions), clock), Tail(transactions), clock)

\* parseWebhookPayload(payload): a payload that is not an array is a batch of one
ParseWebhookPayload(payload) ==
    LET transactions == IF payload.isArray THEN payload.items ELSE <<payload.items[1]>>
        r == ParseLoop([cache |-> signatureCache, recency |-> recency,
                        results |-> [tokens |-> <<>>, swaps |-> <<>>, pools |-> <<>>],
                        trace |-> <<>>],
                       transactions, now)
    IN
    /\ signatureCache' = r.cache
    /\ recency' = r.recency
    /\ results' = r.results
    /\ trace' = r.trace
    /\ UNCHANGED <<mintCache, eventCache, op, firstAdded, nAdded, now>>


----------------------------------------------------------------------------
(* The raw events offered to the normalizer.  A signature identifies one    *)
(* transaction, so a signed event always arrives with the same content.     *)

MaxBatch == 2         \* longest webhook batch

Transfer(mint, from, to, amount) ==
    Some([mint |-> mint, fromUserAccount |-> from, toUserAccount |-> to,
          tokenAmount |-> amount])

RawEvent ==
    [signature |-> 0, type |-> NULL, source |-> NULL, feePayer |-> "alice",
     timestamp |-> 1700000000, instructions |-> None, accountData |-> None,
     tokenTransfers |-> None, nativeTransfers |-> None, swapEvent |-> None]

\* alice buys MEME1 with wrapped SOL
SwapBuy ==
    [RawEvent EXCEPT
       !.type = "SWAP", !.source = "RAYDIUM",
       !.tokenTransfers = Some(<<Transfer("MEME1", "pool1", "alice", 1000),
                                 Transfer(WSOL_MINT, "alice", "pool1", 2)>>)]

\* a Raydium pool for MEME2 against wrapped SOL
PoolCreate ==
    [RawEvent EXCEPT
       !.type = "CREATE_POOL",
       !.instructions = Some(<<[programId |-> "RAYDIUM_V4", accounts |-> <<"pool2">>]>>),
       !.tokenTransfers = Some(<<Transfer("MEME2", "alice", "pool2", 500000),
                                 Transfer(WSOL_MINT, "alice", "pool2", 10)>>)]

\* an untyped Raydium event whose transfer list holds a null
Malformed ==
    [RawEvent EXCEPT
       !.source = "raydium",
       !.tokenTransfers = Some(<<None, Transfer("MEME1", "pool1", "alice", 7)>>)]

\* an untyped plain transfer of MEME2
TransferOnly ==
    [RawEvent EXCEPT
       !.tokenTransfers = Some(<<Transfer("MEME2", "bob", "carol", 30)>>)]

\* a swap between wrapped SOL and USDC: no subject token
QuoteOnly ==
    [RawEvent EXCEPT
       !.type = "SWAP",
       !.tokenTransfers = Some(<<Transfer(WSOL_MINT, "alice", "pool3", 1)>>),
       !.nativeTransfers = Some(<<-5000, 2000000>>)]

\* alice sells MEME1, found by the Pump program id, paid in native SOL, no timestamp
SwapSell ==
    [RawEvent EXCEPT
       !.timestamp = 0,
       !.instructions = Some(<<[programId |-> "PUMP_FUN", accounts |-> <<>>]>>),
       !.tokenTransfers = Some(<<Transfer("MEME1", "alice", "pool1", 40)>>),
       !.nativeTransfers = Some(<<1500000>>),
       !.swapEvent = Some([nativeInput |-> 0, nativeOutput |-> 1500000,
                           tokenOutputMint |-> NULL, tokenInputMint |-> "MEME1"])]

\* nothing recognizable, a balance change of MEME2 only
Unrecognized ==
    [RawEvent EXCEPT
       !.type = "swap", !.source = NotAString,
       !.accountData = Some(<<[account |-> "acc1",
                               tokenBalanceMints |-> <<WSOL_MINT, "MEME2">>]>>)]

\* a swap of USDC reported by a swap event only: the subject found is a stablecoin
StableSwap ==
    [RawEvent EXCEPT
       !.type = "SWAP",
       !.tokenTransfers = Some(<<Transfer("EPjFWdd5AufqSSqeM2qN1xzybapC8G4wEGGkZwyTDt1v",
                                          "alice", "pool3", 25)>>),
       !.swapEvent = Some([nativeInput |-> 0, nativeOutput |-> 0,
                           tokenOutputMint |-> "EPjFWdd5AufqSSqeM2qN1xzybapC8G4wEGGkZwyTDt1v",
                           tokenInputMint |-> NULL])]

\* an Orca pool of wrapped SOL against USDT: no subject mint
QuotePool ==
    [RawEvent EXCEPT
       !.type = "CREATE_POOL",
       !.instructions = Some(<<[programId |-> "ORCA_WHIRLPOOL", accounts |-> <<"pool3">>]>>),
       !.tokenTransfers = Some(<<Transfer(WSOL_MINT, "alice", "pool3", 10),
                                 Transfer("Es9vMFrzaCERmJfrF4H2FYD4KCoNkY11McCe8BenwNYB",
                                          "alice", "pool3", 1500)>>)]

\* alice pays for a purchase of MEME3 that is delivered to carol; the swap
\* event reports the native coin she put in
AggregatorBuy ==
    [RawEvent EXCEPT
       !.type = "SWAP", !.source = "JUPITER",
       !.tokenTransfers = Some(<<Transfer("MEME3", "pool4", "carol", 900),
                                 Transfer(WSOL_MINT, "alice", "pool4", 3)>>),
       !.swapEvent = Some([nativeInput |-> 3000000, nativeOutput |-> 0,
                           tokenOutputMint |-> "MEME3", tokenInputMint |-> NULL])]

\* alice buys MEME1, part of which goes to the token's tax vault
TaxedBuy ==
    [RawEvent EXCEPT
       !.type = "SWAP",
       !.tokenTransfers = Some(<<Transfer("MEME1", "pool1", "alice", 950),
                                 Transfer("MEME1", "pool1", "vault", 50),
                                 Transfer(WSOL_MINT, "alice", "pool1", 2)>>)]

\* alice swaps MEME1 for MEME2 through two pools
RoutedSwap ==
    [RawEvent EXCEPT
       !.type = "SWAP",
       !.tokenTransfers = Some(<<Transfer("MEME1", "alice", "pool1", 100),
                                 Transfer(WSOL_MINT, "pool1", "pool2", 1),
                                 Transfer("MEME2", "pool2", "alice", 7)>>)]

\* alice only pays the fee of a swap between pool2 and carol
RelayedSwap ==
    [RawEvent EXCEPT
       !.type = "SWAP",
       !.tokenTransfers = Some(<<Transfer("MEME2", "pool2", "carol", 70),
                                 Transfer(WSOL_MINT, "carol", "pool2", 1)>>)]

\* alice sends MEME2 to herself
SelfSwap ==
    [RawEvent EXCEPT
       !.type = "SWAP",
       !.tokenTransfers = Some(<<Transfer("MEME2", "alice", "alice", 8)>>)]

\* a declared transfer of wrapped SOL and of an asset whose mint is missing
Mintless ==
    [RawEvent EXCEPT
       !.type = "TRANSFER",
       !.tokenTransfers = Some(<<Transfer(WSOL_MINT, "bob", "carol", 4),
                                 Transfer(NULL, "bob", "carol", 5)>>)]

\* a declared transfer of USDC
QuoteTransfer ==
    [RawEvent EXCEPT
       !.type = "TRANSFER",
       !.tokenTransfers = Some(<<Transfer("EPjFWdd5AufqSSqeM2qN1xzybapC8G4wEGGkZwyTDt1v",
                                          "bob", "carol", 12)>>)]

\* a declared transfer of MEME1 that names Raydium as its source and carries
\* an instruction of the Pump program
TypedTransferOnDex ==
    [RawEvent EXCEPT
       !.type = "TRANSFER", !.source = "RAYDIUM",
       !.instructions = Some(<<[programId |-> "PUMP_FUN", accounts |-> <<>>]>>),
       !.tokenTransfers = Some(<<Transfer("MEME1", "pool1", "alice", 60),
                                 Transfer(WSOL_MINT, "alice", "pool1", 1)>>)]

\* an untyped event of Orca: no instruction, bob receives MEME3
OrcaUntyped ==
    [RawEvent EXCEPT
       !.source = "orca", !.feePayer = "bob",
       !.tokenTransfers = Some(<<Transfer("MEME3", "pool4", "bob", 15)>>)]

\* an untyped event of an unlisted source whose instruction names no DEX
\* program: a balance change of MEME3 and no transfer
BalanceOnly ==
    [RawEvent EXCEPT
       !.source = "SYSTEM_PROGRAM",
       !.instructions = Some(<<[programId |-> "TOKEN_PROGRAM", accounts |-> <<>>]>>),
       !.accountData = Some(<<[account |-> "acc2", tokenBalanceMints |-> <<"MEME3">>]>>)]

SignedBodies == <<SwapBuy, PoolCreate, Malformed, TransferOnly, QuoteOnly, Unrecognized>>

EventOfSignature(s) ==
    [SignedBodies[((s - 1) % Len(SignedBodies)) + 1] EXCEPT !.signature = s]

UnsignedEvents == {SwapSell}

\* the elements of a batch: signed events and unsigned events
Transactions ==
    {Some(EventOfSignature(s)) : s \in Sigs} \cup {Some(e) : e \in UnsignedEvents}

Batches == UNION {[1..n -> Transactions] : n \in 0..MaxBatch}

\* a payload is an array of events, a single event, or null
\* events that arrive alone, as a payload that is not an array
LoneEvents ==
    {QuoteOnly, Unrecognized, StableSwap, QuotePool, AggregatorBuy, TaxedBuy,
     RoutedSwap, RelayedSwap, SelfSwap, Mintless, QuoteTransfer,
     TypedTransferOnDex, OrcaUntyped, BalanceOnly}

Payloads ==
    {[isArray |-> TRUE, items |-> b] : b \in Batches}
        \cup {[isArray |-> FALSE, items |-> <<t>>] :
                 t \in Transactions \cup {Some(e) : e \in LoneEvents} \cup {None}}

ParseInit ==
    /\ results = [tokens |-> <<>>, swaps |-> <<>>, pools |-> <<>>]
    /\ trace = <<>>

ParseNext == \E payload \in Payloads : ParseWebhookPayload(payload)

----------------------------------------------------------------------------
(* Scoring rules (rules.js).  A JavaScript number is the fraction           *)
(* <<numerator, denominator>> with a positive denominator; a table is the   *)
(* sequence Object.values() gives, in declaration order.                    *)

Num(n) == <<n, 1>>

RECURSIVE GCD(_, _)
GCD(a, b) == IF b = 0 THEN a ELSE GCD(b, a % b)

\* a / b for non-negative a and positive b, in lowest terms
Divide(a, b) == <<a \div GCD(a, b), b \div GCD(a, b)>>

GE(a, b) == a[1] * b[2] >= b[1] * a[2]
GT(a, b) == a[1] * b[2] > b[1] * a[2]
LT(a, b) == a[1] * b[2] < b[1] * a[2]
LE(a, b) == a[1] * b[2] <= b[1] * a[2]

LIQUIDITY_THRESHOLDS_Typo ==
    << [min |-> Num(50000), points |-> 25, reason |-> "LIQ_50K_PLUS"],
       [min |-> Num(20000), points |-> 18, reason |-> "LIQ_20K_PLUS"],
       [min |-> Num(10000), points |-> 21, reason |-> "LIQ_10K_PLUS"],
       [min |-> Num(5000), points |-> 6, reason |-> "LIQ_5K_PLUS"],
       [min |-> Num(0), points |-> 0, reason |-> "LIQ_BELOW_5K"] >>

LIQUIDITY_THRESHOLDS ==
    << [min |-> Num(50000), points |-> 25, reason |-> "LIQ_50K_PLUS"],
       [min |-> Num(20000), points |-> 18, reason |-> "LIQ_20K_PLUS"],
       [min |-> Num(10000), points |-> 12, reason |-> "LIQ_10K_PLUS"],
       [min |-> Num(5000), points |-> 6, reason |-> "LIQ_5K_PLUS"],
       [min |-> Num(0), points |-> 0, reason |-> "LIQ_BELOW_5K"] >>

UNIQUE_BUYERS_1M_THRESHOLDS ==
    << [min |-> Num(20), points |-> 20, reason |-> "BUYERS_1M_20_PLUS"],
       [min |-> Num(10), points |-> 14, reason |-> "BUYERS_1M_10_PLUS"],
       [min |-> Num(5), points |-> 8, reason |-> "BUYERS_1M_5_PLUS"],
       [min |-> Num(2), points |-> 4, reason |-> "BUYERS_1M_2_PLUS"],
       [min |-> Num(0), points |-> 0, reason |-> "BUYERS_1M_BELOW_2"] >>

SWAPS_1M_THRESHOLDS ==
    << [min |-> Num(40), points |-> 15, reason |-> "SWAPS_1M_40_PLUS"],
       [min |-> Num(20), points |-> 10, reason |-> "SWAPS_1M_20_PLUS"],
       [min |-> Num(10), points |-> 6, reason |-> "SWAPS_1M_10_PLUS"],
       [min |-> Num(5), points |-> 3, reason |-> "SWAPS_1M_5_PLUS"],
       [min |-> Num(0), points |-> 0, reason |-> "SWAPS_1M_BELOW_5"] >>

VOLUME_1M_THRESHOLDS ==
    << [min |-> Num(50000), points |-> 10, reason |-> "VOL_1M_50K_PLUS"],
       [min |-> Num(20000), points |-> 7, reason |-> "VOL_1M_20K_PLUS"],
       [min |-> Num(10000), points |-> 4, reason |-> "VOL_1M_10K_PLUS"],
       [min |-> Num(5000), points |-> 2, reason |-> "VOL_1M_5K_PLUS"],
       [min |-> Num(0), points |-> 0, reason |-> "VOL_1M_BELOW_5K"] >>

HOLDER_COUNT_THRESHOLDS ==
    << [min |-> Num(200), points |-> 10, reason |-> "HOLDERS_200_PLUS"],
       [min |-> Num(100), points |-> 7, reason |-> "HOLDERS_100_PLUS"],
       [min |-> Num(50), points |-> 4, reason |-> "HOLDERS_50_PLUS"],
       [min |-> Num(20), points |-> 2, reason |-> "HOLDERS_20_PLUS"],
       [min |-> Num(0), points |-> 0, reason |-> "HOLDERS_BELOW_20"] >>

UNIQUE_BUYERS_5M_THRESHOLDS ==
    << [min |-> Num(50), points |-> 10, reason |-> "BUYERS_5M_50_PLUS"],
       [min |-> Num(30), points |-> 7, reason |-> "BUYERS_5M_30_PLUS"],
       [min |-> Num(15), points |-> 4, reason |-> "BUYERS_5M_15_PLUS"],
       [min |-> Num(5), points |-> 2, reason |-> "BUYERS_5M_5_PLUS"],
       [min |-> Num(0), points |-> 0, reason |-> "BUYERS_5M_BELOW_5"] >>

BUY_PRESSURE_THRESHOLDS ==
    << [min |-> <<7, 10>>, points |-> 10, reason |-> "BUY_PRESSURE_70_PCT"],
       [min |-> <<6, 10>>, points |-> 7, reason |-> "BUY_PRESSURE_60_PCT"],
       [min |-> <<5, 10>>, points |-> 4, reason |-> "BUY_PRESSURE_50_PCT"],
       [min |-> <<4, 10>>, points |-> 2, reason |-> "BUY_PRESSURE_40_PCT"],
       [min |-> Num(0), points |-> 0, reason |-> "SELL_PRESSURE"] >>

TOP10_CONCENTRATION_PENALTIES ==
    << [min |-> Num(80), penalty |-> -25, reason |-> "TOP10_PCT_80_PLUS_PENALTY"],
       [min |-> Num(70), penalty |-> -18, reason |-> "TOP10_PCT_70_PLUS_PENALTY"],
       [min |-> Num(60), penalty |-> -10, reason |-> "TOP10_PCT_60_PLUS_PENALTY"],
       [min |-> Num(50), penalty |-> -5, reason |-> "TOP10_PCT_50_PLUS_PENALTY"],
       [min |-> Num(0), penalty |-> 0, reason |-> "TOP10_PCT_HEALTHY"] >>

TOP1_CONCENTRATION_PENALTIES ==
    << [min |-> Num(50), penalty |-> -15, reason |-> "TOP1_PCT_50_PLUS_PENALTY"],
       [min |-> Num(30), penalty |-> -10, reason |-> "TOP1_PCT_30_PLUS_PENALTY"],
       [min |-> Num(20), penalty |-> -5, reason |-> "TOP1_PCT_20_PLUS_PENALTY"],
       [min |-> Num(0), penalty |-> 0, reason |-> "TOP1_PCT_HEALTHY"] >>

AUTHORITY_PENALTIES ==
    [MINT_AUTHORITY |-> [penalty |-> -10, reason |-> "MINT_AUTHORITY_PRESENT",
                         flag |-> "MINT_AUTHORITY_RISK"],
     FREEZE_AUTHORITY |-> [penalty |-> -10, reason |-> "FREEZE_AUTHORITY_PRESENT",
                           flag |-> "FREEZE_AUTHORITY_RISK"],
     BOTH_AUTHORITIES |-> [penalty |-> -20, reason |-> "BOTH_AUTHORITIES_PRESENT",
                           flag |-> "FULL_AUTHORITY_RISK"]]

RISK_FLAGS ==
    [LOW_LIQUIDITY |-> [threshold |-> Num(5000), flag |-> "LOW_LIQUIDITY_WARNING"],
     NEW_TOKEN |-> [thresholdMinutes |-> Num(5), flag |-> "VERY_NEW_TOKEN"],
     LOW_HOLDERS |-> [threshold |-> Num(10), flag |-> "LOW_HOLDER_COUNT"],
     NO_VOLUME |-> [threshold |-> Num(0), flag |-> "NO_RECENT_VOLUME"],
     WHALE_CONCENTRATION |-> [threshold |-> Num(40), flag |-> "WHALE_CONCENTRATION"],
     RAPID_PRICE_DROP |-> [threshold |-> Num(-30), flag |-> "RAPID_PRICE_DROP"]]

MAX_POINTS ==
    [LIQUIDITY |-> 25, UNIQUE_BUYERS_1M |-> 20, SWAPS_1M |-> 15, VOLUME_1M |-> 10,
     HOLDER_COUNT |-> 10, UNIQUE_BUYERS_5M |-> 10, BUY_PRESSURE |-> 10]

----------------------------------------------------------------------------
(* Scoring function (score.js) *)

\* Array.prototype.sort((a, b) => b.min - a.min): stable, descending by min
RECURSIVE InsertByMinDesc(_, _)
InsertByMinDesc(sorted, t) ==
    IF sorted = <<>> THEN <<t>>
    ELSE IF GE(Head(sorted).min, t.min)
         THEN <<Head(sorted)>> \o InsertByMinDesc(Tail(sorted), t)
         ELSE <<t>> \o sorted

RECURSIVE SortByMinDesc(_)
SortByMinDesc(thresholds) ==
    IF thresholds = <<>> THEN <<>>
    ELSE InsertByMinDesc(SortByMinDesc(SubSeq(thresholds, 1, Len(thresholds) - 1)),
                         thresholds[Len(thresholds)])

\* scoreByThreshold
ScoreByThresholdFlipped(value, thresholds) ==
    LET ordered == SortByMinDesc(thresholds)
        met == SelectSeq(ordered, LAMBDA t : LE(value, t.min))
        tier == IF met # <<>> THEN Head(met) ELSE ordered[Len(ordered)]
    IN [points |-> tier.points, reason |-> tier.reason]

ScoreByThresholdLowest(value, thresholds) ==
    LET ordered == SortByMinDesc(thresholds)
        tier == ordered[Len(ordered)]
    IN [points |-> tier.points, reason |-> tier.reason]

ScoreByThreshold(value, thresholds) ==
    LET ordered == SortByMinDesc(thresholds)
        met == SelectSeq(ordered, LAMBDA t : GE(value, t.min))
        tier == IF met # <<>> THEN Head(met) ELSE ordered[Len(ordered)]
    IN [points |-> tier.points, reason |-> tier.reason]

\* a tier is reached only above its minimum
PenaltyByThresholdStrict(value, thresholds) ==
    LET ordered == SortByMinDesc(thresholds)
        met == SelectSeq(ordered, LAMBDA t : GT(value, t.min))
    IN IF met # <<>>
       THEN [penalty |-> Head(met).penalty, reason |-> Head(met).reason]
       ELSE [penalty |-> 0, reason |-> "HEALTHY"]

\* penaltyByThreshold
PenaltyByThreshold(value, thresholds) ==
    LET ordered == SortByMinDesc(thresholds)
        met == SelectSeq(ordered, LAMBDA t : GE(value, t.min))
    IN IF met # <<>>
       THEN [penalty |-> Head(met).penalty, reason |-> Head(met).reason]
       ELSE [penalty |-> 0, reason |-> "HEALTHY"]

\* obj?.field || 0 on an optional record: 0 stands for every falsy number
Field(obj, f) == IF obj = None THEN 0 ELSE obj[1][f]

\* a || b
OrElse(a, b) == IF a # 0 THEN a ELSE b

Max(a, b) == IF a >= b THEN a ELSE b
Min(a, b) == IF a <= b THEN a ELSE b

\* Math.round of the fraction n/d: the nearest integer, halves rounded up
MathRound(x) == (2 * x[1] + x[2]) \div (2 * x[2])

\* Math.max(0, Math.min(100, x))
ClampBelowOnly(x) == Max(0, x)
ClampAboveOnly(x) == Min(100, x)

Clamp(x) == Max(0, Min(100, x))

MsPerMinute == 60000
MsPerSecond == 1000
SecondsPerMinute == MsPerMinute \div MsPerSecond

Positive(value, result, maxPoints) ==
    [value |-> value, points |-> result.points, maxPoints |-> maxPoints,
     reason |-> result.reason]

\* the seven positive components of score(tokenState), in evaluation order
PositiveComponents(ts) ==
    LET liquidityUsd == Num(OrElse(Field(ts.metrics, "liquidity_usd"),
                                   Field(ts.pool, "liquidity_usd")))
        uniqueBuyers1m == Num(Field(ts.metrics, "unique_buyers_1m"))
        swaps1m == Num(Field(ts.metrics, "swaps_1m"))
        volume1m == Num(Field(ts.metrics, "volume_usd_1m"))
        holderCount == Num(OrElse(Field(ts.holders, "holder_count"),
                                  Field(ts.metrics, "holder_count")))
        uniqueBuyers5m == Num(Field(ts.metrics, "unique_buyers_5m"))
        buyVol == Field(ts.metrics, "buy_volume_usd_1m")
        sellVol == Field(ts.metrics, "sell_volume_usd_1m")
        totalVol == buyVol + sellVol
        buyRatio == IF totalVol > 0 THEN Divide(buyVol, totalVol) ELSE Divide(5, 10)
    IN
    [liquidity |-> Positive(liquidityUsd,
                            ScoreByThreshold(liquidityUsd, LIQUIDITY_THRESHOLDS),
                            MAX_POINTS.LIQUIDITY),
     unique_buyers_1m |-> Positive(uniqueBuyers1m,
                            ScoreByThreshold(uniqueBuyers1m, UNIQUE_BUYERS_1M_THRESHOLDS),
                            MAX_POINTS.UNIQUE_BUYERS_1M),
     swaps_1m |-> Positive(swaps1m,
                            ScoreByThreshold(swaps1m, SWAPS_1M_THRESHOLDS),
                            MAX_POINTS.SWAPS_1M),
     volume_1m |-> Positive(volume1m,
                            ScoreByThreshold(volume1m, VOLUME_1M_THRESHOLDS),
                            MAX_POINTS.VOLUME_1M),
     holder_count |-> Positive(holderCount,
                            ScoreByThreshold(holderCount, HOLDER_COUNT_THRESHOLDS),
                            MAX_POINTS.HOLDER_COUNT),
     unique_buyers_5m |-> Positive(uniqueBuyers5m,
                            ScoreByThreshold(uniqueBuyers5m, UNIQUE_BUYERS_5M_THRESHOLDS),
                            MAX_POINTS.UNIQUE_BUYERS_5M),
     buy_pressure |-> Positive(buyRatio,
                            ScoreByThreshold(buyRatio, BUY_PRESSURE_THRESHOLDS),
                            MAX_POINTS.BUY_PRESSURE)]

PositiveOrder ==
    <<"liquidity", "unique_buyers_1m", "swaps_1m", "volume_1m", "holder_count",
      "unique_buyers_5m", "buy_pressure">>

\* a concentration penalty: evaluated only when the percentage is positive
Concentration(pct, thresholds) ==
    IF GT(pct, Num(0))
    THEN LET r == PenaltyByThreshold(pct, thresholds) IN
         Some([value |-> pct, penalty |-> r.penalty, reason |-> r.reason])
    ELSE None

\* token?.mint_authority && token.mint_authority !== null
HasAuthority(token, f) == token # None /\ token[1][f] # NULL

\* the mint authority is looked at first and alone
AuthorityEntryMintFirst(token) ==
    IF HasAuthority(token, "mint_authority") THEN Some(AUTHORITY_PENALTIES.MINT_AUTHORITY)
    ELSE IF HasAuthority(token, "freeze_authority")
    THEN Some(AUTHORITY_PENALTIES.FREEZE_AUTHORITY)
    ELSE None

\* the entry of AUTHORITY_PENALTIES that applies, if any
AuthorityEntry(token) ==
    LET hasMintAuth == HasAuthority(token, "mint_authority")
        hasFreezeAuth == HasAuthority(token, "freeze_authority")
    IN
    IF hasMintAuth /\ hasFreezeAuth THEN Some(AUTHORITY_PENALTIES.BOTH_AUTHORITIES)
    ELSE IF hasMintAuth THEN Some(AUTHORITY_PENALTIES.MINT_AUTHORITY)
    ELSE IF hasFreezeAuth THEN Some(AUTHORITY_PENALTIES.FREEZE_AUTHORITY)
    ELSE None

\* the authority component
Authority(token) ==
    IF AuthorityEntry(token) = None THEN None
    ELSE Some([mintAuthority |-> HasAuthority(token, "mint_authority"),
               freezeAuthority |-> HasAuthority(token, "freeze_authority"),
               penalty |-> AuthorityEntry(token)[1].penalty,
               reason |-> AuthorityEntry(token)[1].reason])

\* components of score(tokenState); a component that is not set is None
Components(ts) ==
    PositiveComponents(ts) @@
    [top10_concentration |-> Concentration(Num(Field(ts.holders, "top10_pct")),
                                           TOP10_CONCENTRATION_PENALTIES),
     top1_concentration |-> Concentration(Num(Field(ts.holders, "top1_pct")),
                                          TOP1_CONCENTRATION_PENALTIES),
     authority |-> Authority(ts.token)]

PenaltyOf(component) == IF component = None THEN 0 ELSE component[1].penalty

RECURSIVE SumPoints(_, _)
SumPoints(positive, names) ==
    IF names = <<>> THEN 0
    ELSE positive[Head(names)].points + SumPoints(positive, Tail(names))

\* totalScore before rounding and clamping
TotalScore(c) ==
    SumPoints(c, PositiveOrder)
        + PenaltyOf(c.top10_concentration)
        + PenaltyOf(c.top1_concentration)
        + PenaltyOf(c.authority)

\* reasons, in evaluation order
Reasons(c) ==
    LET penaltyReason(component) ==
            IF component # None /\ component[1].penalty < 0
            THEN <<component[1].reason>> ELSE <<>>
    IN
    [i \in 1..Len(PositiveOrder) |-> c[PositiveOrder[i]].reason]
        \o penaltyReason(c.top10_concentration)
        \o penaltyReason(c.top1_concentration)
        \o (IF c.authority # None THEN <<c.authority[1].reason>> ELSE <<>>)

\* (Date.now() - new Date(token.first_seen_at).getTime()) / 60000, as a fraction;
\* first_seen_at and the clock are in epoch seconds
AgeMinutes(token, clock) == <<clock - token[1].first_seen_at, SecondsPerMinute>>

IsNewToken(token, clock) ==
    /\ token # None
    /\ token[1].first_seen_at # 0
    /\ LT(AgeMinutes(token, clock), RISK_FLAGS.NEW_TOKEN.thresholdMinutes)

\* risk_flags, in the order they are pushed
RiskFlags(ts, c, clock) ==
    LET flagIf(cond, flag) == IF cond THEN <<flag>> ELSE <<>>
        top1Pct == Num(Field(ts.holders, "top1_pct"))
        priceChange5m == Num(Field(ts.metrics, "price_change_5m"))
    IN
    (IF AuthorityEntry(ts.token) # None THEN <<AuthorityEntry(ts.token)[1].flag>>
     ELSE <<>>)
        \o flagIf(LT(c.liquidity.value, RISK_FLAGS.LOW_LIQUIDITY.threshold),
                  RISK_FLAGS.LOW_LIQUIDITY.flag)
        \o flagIf(IsNewToken(ts.token, clock), RISK_FLAGS.NEW_TOKEN.flag)
        \o flagIf(LT(c.holder_count.value, RISK_FLAGS.LOW_HOLDERS.threshold),
                  RISK_FLAGS.LOW_HOLDERS.flag)
        \o flagIf(LE(c.volume_1m.value, RISK_FLAGS.NO_VOLUME.threshold),
                  RISK_FLAGS.NO_VOLUME.flag)
        \o flagIf(GT(top1Pct, RISK_FLAGS.WHALE_CONCENTRATION.threshold),
                  RISK_FLAGS.WHALE_CONCENTRATION.flag)
        \o flagIf(LT(priceChange5m, RISK_FLAGS.RAPID_PRICE_DROP.threshold),
                  RISK_FLAGS.RAPID_PRICE_DROP.flag)

\* score(tokenState), evaluated when the clock shows `clock`
ScoreAgeInScore(ts, clock) ==
    LET components == Components(ts) IN
    [score |-> Clamp(MathRound(Num(TotalScore(components)
                                    - (IF IsNewToken(ts.token, clock) THEN 5 ELSE 0)))),
     reasons |-> Reasons(components),
     risk_flags |-> RiskFlags(ts, components, clock),
     components |-> components]

\* a score() in which a rapid price drop costs points
ScorePriceDropInScore(ts, clock) ==
    LET components == Components(ts)
        dropped == LT(Num(Field(ts.metrics, "price_change_5m")),
                      RISK_FLAGS.RAPID_PRICE_DROP.threshold)
    IN
    [score |-> Clamp(MathRound(Num(TotalScore(components)
                                    - (IF dropped THEN 5 ELSE 0)))),
     reasons |-> Reasons(components),
     risk_flags |-> RiskFlags(ts, components, clock),
     components |-> components]

Score(ts, clock) ==
    LET components == Components(ts) IN
    [score |-> Clamp(MathRound(Num(TotalScore(components)))),
     reasons |-> Reasons(components),
     risk_flags |-> RiskFlags(ts, components, clock),
     components |-> components]

----------------------------------------------------------------------------
(* The token states offered to score(): the scenarios below, each with one  *)
(* field changed to one of the values around the thresholds, or with one of *)
(* its records missing.                                                      *)

Metrics(liq, b1, s1, vol, hc, b5, buy, sell, price) ==
    Some([liquidity_usd |-> liq, unique_buyers_1m |-> b1, swaps_1m |-> s1,
          volume_usd_1m |-> vol, holder_count |-> hc, unique_buyers_5m |-> b5,
          buy_volume_usd_1m |-> buy, sell_volume_usd_1m |-> sell,
          price_change_5m |-> price])

Holders(hc, top1, top10) ==
    Some([holder_count |-> hc, top1_pct |-> top1, top10_pct |-> top10])

Token(mintAuth, freezeAuth, firstSeen) ==
    Some([mint_authority |-> mintAuth, freeze_authority |-> freezeAuth,
          first_seen_at |-> firstSeen])

Pool(liq) == Some([liquidity_usd |-> liq])

StartTime == 1700000600    \* the clock at start, in epoch seconds

\* first seen four minutes before the start of the run
JustSeen == StartTime - 4 * SecondsPerMinute

ScenarioA ==
    [token |-> Token(NULL, NULL, StartTime - 90 * SecondsPerMinute),
     metrics |-> Metrics(60000, 25, 50, 60000, 250, 60, 42000, 18000, 0),
     holders |-> Holders(250, 0, 0),
     pool |-> Pool(60000)]

ScenarioC ==
    [token |-> Token(NULL, NULL, StartTime - 90 * SecondsPerMinute),
     metrics |-> Metrics(0, 0, 0, 0, 0, 0, 0, 0, 0),
     holders |-> Holders(0, 0, 0),
     pool |-> None]

\* nothing but risk: sell pressure, concentrated holders, both authorities
ScenarioWorst ==
    [token |-> Token("authority", "authority", JustSeen),
     metrics |-> Metrics(0, 0, 0, 0, 0, 0, 0, 18000, -50),
     holders |-> Holders(3, 60, 90),
     pool |-> None]

ScenarioMid ==
    [token |-> Token("authority", NULL, JustSeen),
     metrics |-> Metrics(0, 7, 12, 12000, 0, 20, 27000, 18000, -10),
     holders |-> Holders(0, 25, 65),
     pool |-> Pool(20000)]

ScenarioMissing == [token |-> None, metrics |-> None, holders |-> None, pool |-> None]

\* scenario A with a mint authority and a freeze authority
ScenarioB ==
    [ScenarioA EXCEPT !.token = Token("authority", "authority",
                                      StartTime - 90 * SecondsPerMinute)]

Scenarios == {ScenarioA, ScenarioC, ScenarioWorst, ScenarioMid}

\* the integers at and just below the minimum of every tier of a table
Ladder(thresholds) ==
    UNION {{t.min[1] - 1, t.min[1]} : t \in Range(thresholds)}

BuyVolumeValues == {0, 11000, 12000, 17000, 18000, 26000, 27000, 41000, 42000}
PriceChangeValues == {-50, -31, -30, 0, 10}
FirstSeenValues == {0, JustSeen, StartTime - 5 * SecondsPerMinute}
AuthorityValues == {NULL, "authority"}

MetricsValues(f) ==
    CASE f = "liquidity_usd" -> Ladder(LIQUIDITY_THRESHOLDS)
      [] f = "unique_buyers_1m" -> Ladder(UNIQUE_BUYERS_1M_THRESHOLDS)
      [] f = "swaps_1m" -> Ladder(SWAPS_1M_THRESHOLDS)
      [] f = "volume_usd_1m" -> Ladder(VOLUME_1M_THRESHOLDS)
      [] f = "holder_count" -> Ladder(HOLDER_COUNT_THRESHOLDS)
      [] f = "unique_buyers_5m" -> Ladder(UNIQUE_BUYERS_5M_THRESHOLDS)
      [] f \in {"buy_volume_usd_1m", "sell_volume_usd_1m"} -> BuyVolumeValues
      [] f = "price_change_5m" -> PriceChangeValues

MetricsFields ==
    {"liquidity_usd", "unique_buyers_1m", "swaps_1m", "volume_usd_1m", "holder_count",
     "unique_buyers_5m", "buy_volume_usd_1m", "sell_volume_usd_1m", "price_change_5m"}

HoldersFields == {"holder_count", "top1_pct", "top10_pct"}

HoldersValues(f) ==
    CASE f = "holder_count" -> Ladder(HOLDER_COUNT_THRESHOLDS) \cup {9, 10}
      [] f = "top1_pct" -> Ladder(TOP1_CONCENTRATION_PENALTIES) \cup {40, 41, 100}
      [] f = "top10_pct" -> Ladder(TOP10_CONCENTRATION_PENALTIES) \cup {100}

TokenFields == {"mint_authority", "freeze_authority", "first_seen_at"}

TokenValues(f) == IF f = "first_seen_at" THEN FirstSeenValues ELSE AuthorityValues

Variants(ts) ==
    {ts}
    \cup UNION {{[ts EXCEPT !.metrics = Some([ts.metrics[1] EXCEPT ![f] = v])] :
                    v \in MetricsValues(f)} : f \in MetricsFields}
    \cup UNION {{[ts EXCEPT !.holders = Some([ts.holders[1] EXCEPT ![f] = v])] :
                    v \in HoldersValues(f)} : f \in HoldersFields}
    \cup UNION {{[ts EXCEPT !.token = Some([ts.token[1] EXCEPT ![f] = v])] :
                    v \in TokenValues(f)} : f \in TokenFields}
    \cup {[ts EXCEPT !.pool = p] : p \in {None, Pool(5000), Pool(60000)}}
    \cup {[ts EXCEPT !.metrics = None], [ts EXCEPT !.holders = None],
          [ts EXCEPT !.token = None]}

TokenStates == UNION {Variants(ts) : ts \in Scenarios} \cup {ScenarioMissing, ScenarioB}

\* the inputs scored between two evaluations of tokenState
OtherInputs == {ScenarioA, ScenarioWorst}

ClockStep == 120    \* seconds between two readings of the clock
MaxTicks == 1

\* score(ts) is called
ScoreCall(ts) ==
    /\ last' = Some([input |-> ts, at |-> now, result |-> Score(ts, now)])
    /\ first' = IF ts = tokenState /\ first = None
                THEN Some([at |-> last'[1].at, result |-> last'[1].result])
                ELSE first
    /\ interleaved' = (interleaved \/ (first # None /\ ts # tokenState))
    /\ UNCHANGED <<cacheVars, parseVars, now, tokenState>>

\* time passes
Tick ==
    /\ now < StartTime + MaxTicks * ClockStep
    /\ now' = now + ClockStep
    /\ UNCHANGED <<cacheVars, parseVars, scoreVars, alertVars>>

ScoreIdle ==
    /\ first = None
    /\ last = None
    /\ interleaved = FALSE

ScoreNext ==
    \/ \E ts \in {tokenState} \cup OtherInputs : ScoreCall(ts)
    \/ Tick

----------------------------------------------------------------------------
(* Alerting: shouldAlert (part_002), the alert step of scoreToken           *)
(* (part_000), sendTokenAlert (part_004) and the alerts row (supabase.js).  *)
(* One token is followed; its row of the alerts table is `alert`.           *)

SCORE_THRESHOLD == 70
SCORE_THRESHOLD_WITH_FLAGS == 80
SCORE_CHANGE_THRESHOLD == 10

HardFlags == {"FULL_AUTHORITY_RISK", "MINT_AUTHORITY_RISK", "FREEZE_AUTHORITY_RISK"}

\* the risk flags in the order Array.prototype.sort() puts them
FlagOrder ==
    <<"FREEZE_AUTHORITY_RISK", "FULL_AUTHORITY_RISK", "LOW_HOLDER_COUNT",
      "LOW_LIQUIDITY_WARNING", "MINT_AUTHORITY_RISK", "NO_RECENT_VOLUME",
      "RAPID_PRICE_DROP", "VERY_NEW_TOKEN", "WHALE_CONCENTRATION">>

\* [...flags].sort(): every flag as often as it occurs, in sort order
RECURSIVE SortedFrom(_, _)
SortedFrom(flags, i) ==
    IF i > Len(FlagOrder) THEN <<>>
    ELSE SelectSeq(flags, LAMBDA f : f = FlagOrder[i]) \o SortedFrom(flags, i + 1)

Sorted(flags) == SortedFrom(flags, 1)

\* shouldAlert without the exemption of hard flags below the higher threshold
ShouldAlertIgnoringFlags(scoreResult, previousScore, previousRiskFlags) ==
    LET currentScore == scoreResult.score
        scoreDiff == Abs(currentScore - previousScore[1])
    IN
    IF previousScore = None
    THEN IF currentScore >= SCORE_THRESHOLD
         THEN [shouldSend |-> TRUE, reason |-> "NEW_HIGH_SCORE"]
         ELSE [shouldSend |-> FALSE, reason |-> "SCORE_BELOW_THRESHOLD"]
    ELSE IF scoreDiff >= SCORE_CHANGE_THRESHOLD
         THEN [shouldSend |-> TRUE, reason |-> "SCORE_CHANGE_SIGNIFICANT"]
         ELSE [shouldSend |-> FALSE, reason |-> "NO_SIGNIFICANT_CHANGE"]

\* shouldAlert comparing the score with the previous score only
ShouldAlertScoreOnly(scoreResult, previousScore, previousRiskFlags) ==
    LET currentScore == scoreResult.score
        hasHardFlags == \E i \in DOMAIN scoreResult.risk_flags :
                            scoreResult.risk_flags[i] \in HardFlags
        scoreDiff == Abs(currentScore - previousScore[1])
    IN
    IF previousScore = None
    THEN IF currentScore >= SCORE_THRESHOLD /\ ~hasHardFlags
         THEN [shouldSend |-> TRUE, reason |-> "NEW_HIGH_SCORE"]
         ELSE IF currentScore >= SCORE_THRESHOLD_WITH_FLAGS
         THEN [shouldSend |-> TRUE, reason |-> "NEW_VERY_HIGH_SCORE"]
         ELSE [shouldSend |-> FALSE, reason |-> "SCORE_BELOW_THRESHOLD"]
    ELSE IF scoreDiff >= SCORE_CHANGE_THRESHOLD
         THEN [shouldSend |-> TRUE, reason |-> "SCORE_CHANGE_SIGNIFICANT"]
         ELSE [shouldSend |-> FALSE, reason |-> "NO_SIGNIFICANT_CHANGE"]

\* shouldAlert measuring the change of score against the score threshold
ShouldAlertWrongThreshold(scoreResult, previousScore, previousRiskFlags) ==
    LET currentScore == scoreResult.score
        currentFlags == scoreResult.risk_flags
        hasHardFlags == \E i \in DOMAIN currentFlags : currentFlags[i] \in HardFlags
        scoreDiff == Abs(currentScore - previousScore[1])
        flagsChanged == Sorted(currentFlags) # Sorted(previousRiskFlags)
    IN
    IF previousScore = None
    THEN IF currentScore >= SCORE_THRESHOLD /\ ~hasHardFlags
         THEN [shouldSend |-> TRUE, reason |-> "NEW_HIGH_SCORE"]
         ELSE IF currentScore >= SCORE_THRESHOLD_WITH_FLAGS
         THEN [shouldSend |-> TRUE, reason |-> "NEW_VERY_HIGH_SCORE"]
         ELSE [shouldSend |-> FALSE, reason |-> "SCORE_BELOW_THRESHOLD"]
    ELSE IF scoreDiff >= SCORE_THRESHOLD
         THEN [shouldSend |-> TRUE, reason |-> "SCORE_CHANGE_SIGNIFICANT"]
         ELSE IF flagsChanged /\ currentScore >= SCORE_THRESHOLD
         THEN [shouldSend |-> TRUE, reason |-> "FLAGS_CHANGED"]
         ELSE [shouldSend |-> FALSE, reason |-> "NO_SIGNIFICANT_CHANGE"]

\* shouldAlert(scoreResult, previousScore, previousRiskFlags); previousScore is
\* None for null
ShouldAlert(scoreResult, previousScore, previousRiskFlags) ==
    LET currentScore == scoreResult.score
        currentFlags == scoreResult.risk_flags
        hasHardFlags == \E i \in DOMAIN currentFlags : currentFlags[i] \in HardFlags
        scoreDiff == Abs(currentScore - previousScore[1])
        flagsChanged == Sorted(currentFlags) # Sorted(previousRiskFlags)
    IN
    IF previousScore = None
    THEN IF currentScore >= SCORE_THRESHOLD /\ ~hasHardFlags
         THEN [shouldSend |-> TRUE, reason |-> "NEW_HIGH_SCORE"]
         ELSE IF currentScore >= SCORE_THRESHOLD_WITH_FLAGS
         THEN [shouldSend |-> TRUE, reason |-> "NEW_VERY_HIGH_SCORE"]
         ELSE [shouldSend |-> FALSE, reason |-> "SCORE_BELOW_THRESHOLD"]
    ELSE IF scoreDiff >= SCORE_CHANGE_THRESHOLD
         THEN [shouldSend |-> TRUE, reason |-> "SCORE_CHANGE_SIGNIFICANT"]
         ELSE IF flagsChanged /\ currentScore >= SCORE_THRESHOLD
         THEN [shouldSend |-> TRUE, reason |-> "FLAGS_CHANGED"]
         ELSE [shouldSend |-> FALSE, reason |-> "NO_SIGNIFICANT_CHANGE"]

\* the row insert({ token_mint }) creates: every other column is null
NewAlert ==
    [last_score |-> None, last_sent_at |-> None, telegram_message_id |-> None,
     alert_count |-> 0, last_risk_flags |-> <<>>]

\* getOrCreateAlert inserting a row whether or not there is one
GetOrCreateAlertAlwaysInserts(row) == Some(NewAlert)

\* getOrCreateAlert: the row after the call (it is also what is returned)
GetOrCreateAlert(row) == IF row = None THEN Some(NewAlert) ELSE row

\* String(result.message_id), and the message a handle names
Handle(id) == ToString(id)

MaxMessages == 2    \* messages the chat can hold
MaxAlerts == 2      \* largest alert_count followed

MessageOf(handle) == CHOOSE id \in 1..MaxMessages : Handle(id) = handle

\* what a call of sendTokenAlert did: whether editMessage was called and gave a
\* result, whether sendMessage was called, the message id of the result (None
\* for no result) and whether updateAlert wrote the row
NoDispatch ==
    [editTried |-> FALSE, edited |-> FALSE, sendTried |-> FALSE, result |-> None,
     updated |-> FALSE]

\* sendTokenAlert without the fallback to sendMessage after a failed edit
SendTokenAlertNoFallback(row, scoreResult, outcome, clock, count) ==
    LET isUpdate == row.last_score # None /\ row.telegram_message_id # None
        result == IF isUpdate
                  THEN IF outcome.edit THEN Some(MessageOf(row.telegram_message_id[1]))
                       ELSE None
                  ELSE IF outcome.send THEN Some(count + 1) ELSE None
    IN
    [alert |-> IF result # None /\ outcome.update
               THEN [last_score |-> Some(scoreResult.score),
                     last_sent_at |-> Some(clock),
                     telegram_message_id |-> Some(Handle(result[1])),
                     alert_count |-> row.alert_count + 1,
                     last_risk_flags |-> scoreResult.risk_flags]
               ELSE row,
     messages |-> IF ~isUpdate /\ outcome.send THEN count + 1 ELSE count,
     dispatch |-> [editTried |-> isUpdate, edited |-> isUpdate /\ outcome.edit,
                   sendTried |-> ~isUpdate,
                   result |-> result, updated |-> result # None /\ outcome.update]]

\* sendTokenAlert writing the row whether or not a message went out
SendTokenAlertAlwaysUpdates(row, scoreResult, outcome, clock, count) ==
    LET isUpdate == row.last_score # None /\ row.telegram_message_id # None
        edited == isUpdate /\ outcome.edit
        sendTried == ~edited
        result == IF edited THEN Some(MessageOf(row.telegram_message_id[1]))
                  ELSE IF outcome.send THEN Some(count + 1) ELSE None
    IN
    [alert |-> [last_score |-> Some(scoreResult.score),
                last_sent_at |-> Some(clock),
                telegram_message_id |-> IF result # None THEN Some(Handle(result[1]))
                                        ELSE row.telegram_message_id,
                alert_count |-> row.alert_count + 1,
                last_risk_flags |-> scoreResult.risk_flags],
     messages |-> IF sendTried /\ outcome.send THEN count + 1 ELSE count,
     dispatch |-> [editTried |-> isUpdate, edited |-> edited, sendTried |-> sendTried,
                   result |-> result, updated |-> TRUE]]

\* sendTokenAlert with chatId set and alerts enabled: the row, the number of
\* messages in the chat and what was done.  outcome says whether an edit, a send
\* and the write of the row succeed when they are tried; count is the number of
\* messages in the chat before the call
SendTokenAlert(row, scoreResult, outcome, clock, count) ==
    LET isUpdate == row.last_score # None /\ row.telegram_message_id # None
        edited == isUpdate /\ outcome.edit
        sendTried == ~edited
        result == IF edited THEN Some(MessageOf(row.telegram_message_id[1]))
                  ELSE IF outcome.send THEN Some(count + 1) ELSE None
    IN
    [alert |-> IF result # None /\ outcome.update
               THEN [last_score |-> Some(scoreResult.score),
                     last_sent_at |-> Some(clock),
                     telegram_message_id |-> Some(Handle(result[1])),
                     alert_count |-> row.alert_count + 1,
                     last_risk_flags |-> scoreResult.risk_flags]
               ELSE row,
     messages |-> IF sendTried /\ outcome.send THEN count + 1 ELSE count,
     dispatch |-> [editTried |-> isUpdate, edited |-> edited, sendTried |-> sendTried,
                   result |-> result, updated |-> result # None /\ outcome.update]]

\* Send, Update or Suppress: what shouldAlert decided, by the state of the row
Decision(check, previousScore) ==
    IF ~check.shouldSend THEN "Suppress"
    ELSE IF previousScore = None THEN "Send" ELSE "Update"

HasHardFlags(flags) == \E i \in DOMAIN flags : flags[i] \in HardFlags

ScenarioScores == <<75, 83, 60>>

\* the history of the scenario: the decisions of the cycles so far while they
\* are the scenario's (the first one delivered and recorded, the second one
\* with the flags of the first), or off
FollowedAfter(was, scoreResult, row, decision, dispatch) ==
    LET k == Len(was.decisions) + 1 IN
    IF /\ was.on
       /\ k <= Len(ScenarioScores)
       /\ scoreResult.score = ScenarioScores[k]
       /\ k = 1 => /\ row.last_score = None
                   /\ ~HasHardFlags(scoreResult.risk_flags)
                   /\ dispatch.updated
       /\ k = 2 => scoreResult.risk_flags = was.flags
    THEN [on |-> TRUE, decisions |-> Append(was.decisions, decision),
          flags |-> IF k = 1 THEN scoreResult.risk_flags ELSE was.flags]
    ELSE [on |-> FALSE, decisions |-> <<>>, flags |-> <<>>]

\* the alert step of scoreToken for one scoring cycle of the token: the score
\* result is the input, outcome what Telegram and the alerts table do
AlertCycle(scoreResult, outcome) ==
    LET row == GetOrCreateAlert(alert)[1]
        check == ShouldAlert(scoreResult, row.last_score, row.last_risk_flags)
        decision == Decision(check, row.last_score)
        sent == IF check.shouldSend /\ config = "on"
                THEN SendTokenAlert(row, scoreResult, outcome, now, messages)
                ELSE [alert |-> row, messages |-> messages, dispatch |-> NoDispatch]
    IN
    /\ row.alert_count < MaxAlerts
    /\ messages < MaxMessages
    /\ alert' = Some(sent.alert)
    /\ messages' = sent.messages
    /\ cycle' = Some([input |-> scoreResult, prior |-> alert, check |-> check,
                      decision |-> decision,
                      dispatch |-> sent.dispatch])
    /\ followed' = FollowedAfter(followed, scoreResult, row, decision, sent.dispatch)
    /\ UNCHANGED <<cacheVars, parseVars, scoreVars, now, config>>

AlertScores == {60, 70, 75, 80, 83}

AlertFlags == {<<>>, <<"LOW_LIQUIDITY_WARNING">>, <<"MINT_AUTHORITY_RISK">>}

ScoreResults == {[score |-> s, risk_flags |-> f] : s \in AlertScores, f \in AlertFlags}

\* an edit that fails or succeeds, a send that fails or succeeds, a write of the
\* row that fails or succeeds
Outcomes ==
    {o \in [edit : BOOLEAN, send : BOOLEAN, update : BOOLEAN] :
        /\ o.edit => o.send
        /\ ~o.send => o.update}

\* "on", or why sendTokenAlert returns at once: no chat id, or alerts disabled
Configs == {"on", "noChatId", "disabled"}

AlertInit ==
    /\ alert = None
    /\ messages = 0
    /\ cycle = None
    /\ followed = [on |-> TRUE, decisions |-> <<>>, flags |-> <<>>]

\* the outcomes that make a difference: all of them when sendTokenAlert gets
\* to Telegram, one otherwise
OutcomesFor(scoreResult) ==
    LET row == GetOrCreateAlert(alert)[1] IN
    IF config = "on"
          /\ ShouldAlert(scoreResult, row.last_score, row.last_risk_flags).shouldSend
    THEN Outcomes
    ELSE {[edit |-> TRUE, send |-> TRUE, update |-> TRUE]}

AlertNext ==
    \/ \E scoreResult \in ScoreResults :
          \E outcome \in OutcomesFor(scoreResult) : AlertCycle(scoreResult, outcome)
    \/ Tick

----------------------------------------------------------------------------
(* The webhook endpoint (server.js) and the swaps table (supabase.js).      *)
(* The route handler runs to its end without yielding; the callback it      *)
(* hands to setImmediate runs later, one payload at a time.                 *)

MaxRequests == 2      \* webhook requests followed
MaxRestarts == 1      \* restarts of the process followed

HELIUS_WEBHOOK_SECRET == "s3cret"

\* the template literal `Bearer ${secret}`
Bearer(secret) == IF secret = "s3cret" THEN "Bearer s3cret" ELSE "Bearer"

\* validateWebhookSecret with the secret configured: the header, then the query
ValidateWebhookSecret(request) ==
    IF HELIUS_WEBHOOK_SECRET = NULL THEN TRUE
    ELSE IF request.authorization = HELIUS_WEBHOOK_SECRET
            \/ request.authorization = Bearer(HELIUS_WEBHOOK_SECRET)
    THEN TRUE
    ELSE request.querySecret = HELIUS_WEBHOOK_SECRET

\* a handler that hands the payload over without answering first
WebhookHandlerRepliesLater(request) ==
    IF ~ValidateWebhookSecret(request)
    THEN [response |-> Some(401), immediate |-> None]
    ELSE [response |-> None, immediate |-> Some(request.body)]

\* the handler of POST /webhook/helius: the response it sends and the payload
\* it hands to setImmediate
WebhookHandler(request) ==
    IF ~ValidateWebhookSecret(request)
    THEN [response |-> Some(401), immediate |-> None]
    ELSE [response |-> Some(200), immediate |-> Some(request.body)]

\* what the storage client answers to an upsert that hits an existing
\* signature with ignoreDuplicates: the row is left alone and no row comes
\* back, which .single() reports as PGRST116; 23505 is the unique violation
\* that insertSwap provides for
DuplicateAnswers == {"PGRST116", "23505"}

ErrorMessage(code) ==
    CASE code = "PGRST116" -> "JSON object requested, multiple (or no) rows returned"
      [] code = "23505" -> "duplicate key value violates unique constraint"
      [] OTHER -> "Cannot read properties of null (reading 'signature')"

\* err.message.includes('duplicate') || err.message.includes('unique')
IsDuplicateMessage(message) ==
    message = "duplicate key value violates unique constraint"

\* an insert that does not look for an existing row
InsertSwapNoConflictTarget(rows, swap, answer) ==
    [rows |-> [rows EXCEPT ![swap.signature] = @ + 1], logged |-> <<>>, thrown |-> None]

\* insertSwap: the table after the call, what it logged and what it threw
InsertSwap(rows, swap, answer) ==
    IF rows[swap.signature] = 0
    THEN [rows |-> [rows EXCEPT ![swap.signature] = 1], logged |-> <<>>, thrown |-> None]
    ELSE IF answer # "23505"
    THEN [rows |-> rows, logged |-> <<"Failed to insert swap">>, thrown |-> Some(answer)]
    ELSE [rows |-> rows, logged |-> <<>>, thrown |-> None]

\* the swaps loop of processWebhookPayload over the swaps left to store
RECURSIVE StoreSwaps(_, _, _, _)
StoreSwaps(rows, logged, swaps, answer) ==
    IF swaps = <<>> THEN [rows |-> rows, logged |-> logged]
    ELSE LET r == InsertSwap(rows, Head(swaps), answer)
             caught == IF r.thrown # None /\ ~IsDuplicateMessage(ErrorMessage(r.thrown[1]))
                       THEN <<"Failed to insert swap">> ELSE <<>>
         IN StoreSwaps(r.rows, logged \o r.logged \o caught, Tail(swaps), answer)

\* the transactions of a payload, as processWebhookPayload lists them
TransactionsOf(payload) ==
    IF payload.isArray THEN payload.items ELSE <<payload.items[1]>>

\* reading tx.signature of a null element throws
RawEventLoopThrows(payload) ==
    \E i \in DOMAIN TransactionsOf(payload) : TransactionsOf(payload)[i] = None

\* the signatures of the swaps of a payload that already have a row
StoredBefore(payload) ==
    {TransactionsOf(payload)[i][1].signature :
        i \in {j \in DOMAIN TransactionsOf(payload) : TransactionsOf(payload)[j] # None}}
      \cap {sig \in DOMAIN swapRows : swapRows[sig] > 0}

\* the request whose callback setImmediate runs next: the oldest one queued
NextQueued ==
    CHOOSE i \in DOMAIN requests :
        /\ requests[i].state = "queued"
        /\ \A j \in 1..(i - 1) : requests[j].state # "queued"

\* POST /webhook/helius: the handler, up to its return
Receive(request) ==
    /\ Len(requests) < MaxRequests
    /\ LET h == WebhookHandler(request) IN
       requests' = Append(requests,
                          [request |-> request,
                           response |-> h.response,
                           immediate |-> h.immediate,
                           state |-> IF h.immediate # None THEN "queued" ELSE "rejected",
                           acknowledged |-> FALSE,
                           redelivered |-> {},
                           logged |-> <<>>])
    /\ UNCHANGED <<cacheVars, now, parseVars, scoreVars, alertVars, swapRows, restarts>>

\* the callback given to setImmediate: processWebhookPayload inside try/catch
RunImmediate(answer) ==
    /\ \E i \in DOMAIN requests : requests[i].state = "queued"
    /\ LET i == NextQueued
           payload == requests[i].immediate[1]
           threw == RawEventLoopThrows(payload)
           stored == IF threw THEN [rows |-> swapRows, logged |-> <<>>]
                     ELSE StoreSwaps(swapRows, <<>>, results'.swaps, answer)
       IN
       /\ ParseWebhookPayload(payload)
       /\ swapRows' = stored.rows
       /\ requests' = [requests EXCEPT
                         ![i].state = IF threw THEN "failed" ELSE "done",
                         ![i].acknowledged = requests[i].response # None,
                         ![i].redelivered = StoredBefore(payload),
                         ![i].logged = IF threw THEN <<"Webhook processing failed">>
                                       ELSE stored.logged]
    /\ UNCHANGED <<scoreVars, alertVars, restarts>>

\* the process stops and starts again: the caches are new and the callbacks
\* not yet run are gone; the tables stay
Restart ==
    /\ restarts < MaxRestarts
    /\ restarts' = restarts + 1
    /\ signatureCache' = <<>>
    /\ mintCache' = <<>>
    /\ eventCache' = <<>>
    /\ op' = [name |-> "init", key |-> NULL, ret |-> NULL]
    /\ recency' = <<>>
    /\ firstAdded' = 0
    /\ nAdded' = 0
    /\ results' = [tokens |-> <<>>, swaps |-> <<>>, pools |-> <<>>]
    /\ trace' = <<>>
    /\ requests' = [i \in DOMAIN requests |->
                      IF requests[i].state = "queued"
                      THEN [requests[i] EXCEPT !.state = "lost"] ELSE requests[i]]
    /\ UNCHANGED <<now, scoreVars, alertVars, swapRows>>

\* the swap that signature s names: a purchase or a relayed swap
SwapOfSignature(s) ==
    [(IF s % 2 = 1 THEN SwapBuy ELSE RelayedSwap) EXCEPT !.signature = s]

\* a batch of two: a null element, or an event whose extraction throws,
\* followed by the swap that signature 1 names
NullThenSwap == [isArray |-> TRUE, items |-> <<None, Some(SwapOfSignature(1))>>]

ThrowingThenSwap ==
    [isArray |-> TRUE,
     items |-> <<Some([Malformed EXCEPT !.signature = 2]), Some(SwapOfSignature(1))>>]

\* the bodies sent to the endpoint: one signed swap, null, or a batch of two
Bodies ==
    {[isArray |-> FALSE, items |-> <<Some(SwapOfSignature(s))>>] : s \in Sigs}
        \cup {[isArray |-> FALSE, items |-> <<None>>]}
        \cup {NullThenSwap, ThrowingThenSwap}

Credentials ==
    {[authorization |-> HELIUS_WEBHOOK_SECRET, querySecret |-> NULL],
     [authorization |-> "Bearer s3cret", querySecret |-> NULL],
     [authorization |-> NULL, querySecret |-> HELIUS_WEBHOOK_SECRET],
     [authorization |-> "guess", querySecret |-> NULL]}

Requests ==
    {[authorization |-> c.authorization, querySecret |-> c.querySecret, body |-> b] :
        c \in Credentials, b \in Bodies}

ServerInit ==
    /\ swapRows = [s \in Sigs |-> 0]
    /\ requests = <<>>
    /\ restarts = 0

ServerNext ==
    \/ \E request \in Requests : Receive(request)
    \/ \E answer \in DuplicateAnswers : RunImmediate(answer)
    \/ Restart

----------------------------------------------------------------------------
(* Webhook deliveries in flight together (server.js).  The callback given   *)
(* to setImmediate runs from its start to its first await in one stretch,   *)
(* parseWebhookPayload included; every storage call is awaited, and other   *)
(* callbacks run while it is.                                               *)

NotBegun == [pc |-> "none", trace |-> <<>>, awaits |-> <<>>, failed |-> <<>>]

\* the storage calls processWebhookPayload awaits for a parse result, in
\* order: the tokens, then the swaps, then the pools
RECURSIVE Tagged(_, _)
Tagged(kind, list) ==
    IF list = <<>> THEN <<>>
    ELSE <<[kind |-> kind, item |-> Head(list)]>> \o Tagged(kind, Tail(list))

AwaitsOf(parsed) ==
    Tagged("token", parsed.tokens) \o Tagged("swap", parsed.swaps)
        \o Tagged("pool", parsed.pools)

\* the callback of the oldest queued request begins: the parse, the raw-event
\* loop, and the loops up to the first await
BeginImmediate ==
    /\ \E i \in DOMAIN requests : requests[i].state = "queued"
    /\ LET i == NextQueued
           payload == requests[i].immediate[1]
           threw == RawEventLoopThrows(payload)
           awaits == IF threw THEN <<>> ELSE AwaitsOf(results')
           pc == IF threw THEN "failed" ELSE IF awaits = <<>> THEN "done" ELSE "awaiting"
       IN
       /\ ParseWebhookPayload(payload)
       /\ callbacks' = [callbacks EXCEPT ![i] = [pc |-> pc, trace |-> trace', awaits |-> awaits,
                                                 failed |-> <<>>]]
       /\ requests' = [requests EXCEPT
                         ![i].state = IF pc = "awaiting" THEN "storing" ELSE pc,
                         ![i].acknowledged = requests[i].response # None,
                         ![i].redelivered = StoredBefore(payload),
                         ![i].logged = IF threw THEN <<"Webhook processing failed">>
                                       ELSE <<>>]
    /\ UNCHANGED <<scoreVars, alertVars, swapRows, restarts>>

\* the storage calls callback i awaits for one token, swap or pool settle, and
\* the callback runs on to its next await or to its end
Settles(i, answer) ==
    /\ callbacks[i].pc = "awaiting"
    /\ LET head == Head(callbacks[i].awaits)
           rest == Tail(callbacks[i].awaits)
           stored == IF head.kind = "swap"
                     THEN StoreSwaps(swapRows, <<>>, <<head.item>>, answer)
                     ELSE [rows |-> swapRows, logged |-> <<>>]
       IN
       /\ swapRows' = stored.rows
       /\ callbacks' = [callbacks EXCEPT
                          ![i].awaits = rest,
                          ![i].pc = IF rest = <<>> THEN "done" ELSE "awaiting"]
       /\ requests' = [requests EXCEPT
                         ![i].state = IF rest = <<>> THEN "done" ELSE "storing",
                         ![i].logged = @ \o stored.logged]
    /\ UNCHANGED <<cacheVars, now, parseVars, scoreVars, alertVars, restarts>>

\* what the catch of a loop of processWebhookPayload logs for a storage error
\* that is not a duplicate
FailureLog(kind) ==
    CASE kind = "token" -> "Failed to upsert token"
      [] kind = "swap" -> "Failed to insert swap"
      [] OTHER -> "Failed to upsert pool"

\* a storage call callback i awaits rejects (the storage is unreachable or
\* answers an error): nothing is written, the catch of the loop logs it, and
\* the callback runs on to its next await or to its end
Rejects(i) ==
    /\ callbacks[i].pc = "awaiting"
    /\ LET head == Head(callbacks[i].awaits)
           rest == Tail(callbacks[i].awaits)
       IN
       /\ callbacks' = [callbacks EXCEPT
                          ![i].awaits = rest,
                          ![i].failed = Append(@, head),
                          ![i].pc = IF rest = <<>> THEN "done" ELSE "awaiting"]
       /\ requests' = [requests EXCEPT
                         ![i].state = IF rest = <<>> THEN "done" ELSE "storing",
                         ![i].logged = Append(@, FailureLog(head.kind))]
    /\ UNCHANGED <<cacheVars, now, parseVars, scoreVars, alertVars, swapRows, restarts>>

\* a batch of two swaps
TwoSwaps ==
    [isArray |-> TRUE, items |-> <<Some(SwapOfSignature(1)), Some(SwapOfSignature(2))>>]

\* authenticated deliveries
Deliveries ==
    {[authorization |-> HELIUS_WEBHOOK_SECRET, querySecret |-> NULL, body |-> b] :
        b \in Bodies \cup {TwoSwaps}}

DeliveryInit == callbacks = [i \in 1..MaxRequests |-> NotBegun]

DeliveryNext ==
    \/ \E request \in Deliveries : Receive(request) /\ UNCHANGED callbacks
    \/ BeginImmediate
    \/ \E i \in 1..MaxRequests, answer \in DuplicateAnswers : Settles(i, answer)
    \/ \E i \in 1..MaxRequests : Rejects(i)

----------------------------------------------------------------------------
(* Swap metrics (supabase.js getSwapMetrics).  Instants are epoch seconds;  *)
(* amount_usd is a whole number of dollars, 0 standing for null.            *)

MaxRows == 3          \* rows of the swaps table of the token

\* minutesAgo(minutes), read when the clock shows `clock`
MinutesAgo(minutes, clock) == clock - minutes * SecondsPerMinute

\* an insertion of row into rows, kept in descending order of ts, a row
\* going after the rows of the same instant
RECURSIVE InsertByTsDesc(_, _)
InsertByTsDesc(rows, row) ==
    IF rows = <<>> THEN <<row>>
    ELSE IF Head(rows).ts >= row.ts
         THEN <<Head(rows)>> \o InsertByTsDesc(Tail(rows), row)
         ELSE <<row>> \o rows

RECURSIVE OrderByTsDesc(_)
OrderByTsDesc(rows) ==
    IF rows = <<>> THEN <<>>
    ELSE InsertByTsDesc(OrderByTsDesc(SubSeq(rows, 1, Len(rows) - 1)), rows[Len(rows)])

\* the query of getSwapMetrics: the swaps of the token since fifteenMinAgo,
\* newest first
QuerySwaps(table, clock) ==
    OrderByTsDesc(SelectSeq(table, LAMBDA row : row.ts >= MinutesAgo(15, clock)))

EmptyMetrics ==
    [swaps_1m |-> 0, swaps_5m |-> 0, swaps_15m |-> 0,
     unique_buyers_1m |-> {}, unique_buyers_5m |-> {}, unique_buyers_15m |-> {},
     unique_sellers_1m |-> {}, unique_sellers_5m |-> {},
     volume_usd_1m |-> 0, volume_usd_5m |-> 0, volume_usd_15m |-> 0,
     buy_volume_usd_1m |-> 0, sell_volume_usd_1m |-> 0]

\* Set.add of an address that is truthy
AddIf(set, address) == IF address # NULL THEN set \cup {address} ELSE set

\* the body of the loop of getSwapMetrics over the swaps
MetricsStep(metrics, swap, oneMinTime, fiveMinTime) ==
    LET volume == swap.amount_usd
        m15 == [metrics EXCEPT
                  !.swaps_15m = @ + 1,
                  !.volume_usd_15m = @ + volume,
                  !.unique_buyers_15m = AddIf(@, swap.buyer),
                  !.unique_sellers_5m = AddIf(@, swap.seller)]
        m5 == IF swap.ts >= fiveMinTime
              THEN [m15 EXCEPT
                      !.swaps_5m = @ + 1,
                      !.volume_usd_5m = @ + volume,
                      !.unique_buyers_5m = AddIf(@, swap.buyer)]
              ELSE m15
    IN
    IF swap.ts >= oneMinTime
    THEN [m5 EXCEPT
            !.swaps_1m = @ + 1,
            !.volume_usd_1m = @ + volume,
            !.unique_buyers_1m = AddIf(@, swap.buyer),
            !.unique_sellers_1m = AddIf(@, swap.seller),
            !.buy_volume_usd_1m = IF swap.side = "buy" THEN @ + volume ELSE @,
            !.sell_volume_usd_1m = IF swap.side = "sell" THEN @ + volume ELSE @]
    ELSE m5

RECURSIVE MetricsLoop(_, _, _, _)
MetricsLoop(metrics, swaps, oneMinTime, fiveMinTime) ==
    IF swaps = <<>> THEN metrics
    ELSE MetricsLoop(MetricsStep(metrics, Head(swaps), oneMinTime, fiveMinTime),
                     Tail(swaps), oneMinTime, fiveMinTime)

\* the snapshot returned: the sizes of the sets, the counts and the sums
Snapshot(metrics) ==
    [swaps_1m |-> metrics.swaps_1m,
     swaps_5m |-> metrics.swaps_5m,
     swaps_15m |-> metrics.swaps_15m,
     unique_buyers_1m |-> Cardinality(metrics.unique_buyers_1m),
     unique_buyers_5m |-> Cardinality(metrics.unique_buyers_5m),
     unique_buyers_15m |-> Cardinality(metrics.unique_buyers_15m),
     unique_sellers_1m |-> Cardinality(metrics.unique_sellers_1m),
     unique_sellers_5m |-> Cardinality(metrics.unique_sellers_5m),
     volume_usd_1m |-> metrics.volume_usd_1m,
     volume_usd_5m |-> metrics.volume_usd_5m,
     volume_usd_15m |-> metrics.volume_usd_15m,
     buy_volume_usd_1m |-> metrics.buy_volume_usd_1m,
     sell_volume_usd_1m |-> metrics.sell_volume_usd_1m]

\* an aggregation that stops after the first swap
AggregateNewestOnly(swaps, clock) ==
    Snapshot(MetricsLoop(EmptyMetrics, IF swaps = <<>> THEN <<>> ELSE <<Head(swaps)>>,
                         MinutesAgo(1, clock), MinutesAgo(5, clock)))

\* getSwapMetrics after its query: the snapshot of the swaps returned
Aggregate(swaps, clock) ==
    IF swaps = <<>>
    THEN [swaps_1m |-> 0, swaps_5m |-> 0, swaps_15m |-> 0,
          unique_buyers_1m |-> 0, unique_buyers_5m |-> 0, unique_buyers_15m |-> 0,
          unique_sellers_1m |-> 0, unique_sellers_5m |-> 0,
          volume_usd_1m |-> 0, volume_usd_5m |-> 0, volume_usd_15m |-> 0,
          buy_volume_usd_1m |-> 0, sell_volume_usd_1m |-> 0]
    ELSE Snapshot(MetricsLoop(EmptyMetrics, swaps,
                              MinutesAgo(1, clock), MinutesAgo(5, clock)))

\* getSwapMetrics(tokenMint) on the rows the table holds for the token
GetSwapMetrics(table) ==
    /\ aggregated' = Some([swaps |-> QuerySwaps(table, now),
                           at |-> now,
                           result |-> Aggregate(QuerySwaps(table, now), now)])
    /\ UNCHANGED <<cacheVars, now, parseVars, scoreVars, alertVars, serverVars>>

SwapRow(age, side, amount, buyer, seller) ==
    [ts |-> StartTime - age, side |-> side, amount_usd |-> amount,
     buyer |-> buyer, seller |-> seller]

\* swaps of the token, from half a minute to a quarter of an hour before the
\* start, on both sides of the cutoffs
SwapRows ==
    {SwapRow(30, "buy", 10, "alice", NULL),
     SwapRow(60, "sell", 25, NULL, "bob"),
     SwapRow(61, "buy", 40, "carol", NULL),
     SwapRow(300, "sell", 5, NULL, "alice"),
     SwapRow(600, "sell", 100, NULL, "dave"),
     SwapRow(900, "unknown", 0, "bob", NULL)}

Tables == UNION {[1..n -> SwapRows] : n \in 0..MaxRows}

MetricsInit == aggregated = None

MetricsNext ==
    \/ \E table \in Tables : GetSwapMetrics(table)
    \/ Tick /\ UNCHANGED <<serverVars, metricsVars>>

----------------------------------------------------------------------------
(* The enrichment worker (enrichToken, retryWithBackoff) and the fetches of *)
(* helius.js.  What a function does when called is a record: it returns a  *)
(* value or it throws an error; a function called several times is the     *)
(* sequence of what its calls do.                                           *)

MaxEnrichments == 2   \* enrichments of the token followed

MAX_RETRIES == 3
RETRY_DELAY_MS == 1000

Returns(value) == [kind |-> "return", value |-> value, status |-> 0]

\* an error with a status (0 when the error carries none)
Throws(status) == [kind |-> "throw", value |-> NULL, status |-> status]

Called == [ev |-> "call", ms |-> 0]

Slept(ms) == [ev |-> "sleep", ms |-> ms]

\* a loop that retries every error
RECURSIVE RetryLoopEveryError(_, _, _, _, _, _)
RetryLoopEveryError(fn, i, maxRetries, delay, log, lastError) ==
    IF i >= maxRetries
    THEN [log |-> log, returned |-> None, thrown |-> lastError]
    ELSE LET r == fn[i + 1]
             called == Append(log, Called)
         IN
         IF r.kind = "return"
         THEN [log |-> called, returned |-> Some(r.value), thrown |-> None]
         ELSE IF i < maxRetries - 1
         THEN RetryLoopEveryError(fn, i + 1, maxRetries, delay,
                                  Append(called, Slept(delay * 2^i)), Some(r))
         ELSE RetryLoopEveryError(fn, i + 1, maxRetries, delay, called, Some(r))

\* the for loop of retryWithBackoff from attempt i on: the calls and sleeps
\* so far, and how it ends
RECURSIVE RetryLoop(_, _, _, _, _, _)
RetryLoop(fn, i, maxRetries, delay, log, lastError) ==
    IF i >= maxRetries
    THEN [log |-> log, returned |-> None, thrown |-> lastError]
    ELSE LET r == fn[i + 1]
             called == Append(log, Called)
         IN
         IF r.kind = "return"
         THEN [log |-> called, returned |-> Some(r.value), thrown |-> None]
         ELSE IF r.status = 404 \/ r.status = 400
         THEN [log |-> called, returned |-> None, thrown |-> Some(r)]
         ELSE IF i < maxRetries - 1
         THEN RetryLoop(fn, i + 1, maxRetries, delay,
                        Append(called, Slept(delay * 2^i)), Some(r))
         ELSE RetryLoop(fn, i + 1, maxRetries, delay, called, Some(r))

\* retryWithBackoff(fn) with the default maxRetries and delay
RetryWithBackoff(fn) == RetryLoop(fn, 0, MAX_RETRIES, RETRY_DELAY_MS, <<>>, None)

\* a call of retryWithBackoff on its own
CallRetryWithBackoff(fn) ==
    /\ retried' = Some([fn |-> fn] @@ RetryWithBackoff(fn))
    /\ UNCHANGED <<tokenRow, enrichment>>

\* what a function given to retryWithBackoff may do when called
FnOutcomes ==
    {Returns("data"), Returns(NULL), Throws(0), Throws(500), Throws(404), Throws(400)}

Fns == [1..MAX_RETRIES -> FnOutcomes]

RetryNext == \E fn \in Fns : CallRetryWithBackoff(fn)

\* fetchTokenMetadata, fetchTokenInfo, fetchTokenHolders on the answer of the
\* API: the data, or null when the response is not ok or the request fails
Fetch(answer) == IF answer = "ok" THEN Returns("data") ELSE Returns(NULL)

Stages == <<"metadata", "tokenInfo", "holders">>

\* the template literal `${stage}: ${err.message}`
ErrorEntry(stage, error) == [stage |-> stage, status |-> error.status]

\* one of the first three steps of enrichToken: retryWithBackoff on the
\* fetch, the data kept, the error caught
EnrichStep(stage, answers, insert) ==
    LET r == RetryWithBackoff([k \in DOMAIN answers |-> Fetch(answers[k])])
        data == IF r.returned # None THEN r.returned[1] ELSE NULL
        insertThrows == stage = "holders" /\ data # NULL /\ insert = "error"
    IN
    [log |-> r.log,
     data |-> data,
     errors |-> IF r.thrown # None THEN <<ErrorEntry(stage, r.thrown[1])>>
                ELSE IF insertThrows THEN <<ErrorEntry(stage, Throws(0))>>
                ELSE <<>>]

\* enrichToken(token): answers gives, per fetch, what the API answers to its
\* successive requests; insert is how insertHolderSnapshot ends; the other
\* calls of the storage succeed
EnrichToken(answers, insert) ==
    /\ tokenRow.enrich_count < MaxEnrichments
    /\ LET steps == [s \in DOMAIN Stages |-> EnrichStep(Stages[s], answers[s], insert)]
           errors == steps[1].errors \o steps[2].errors \o steps[3].errors
       IN
       /\ tokenRow' = [name |-> IF steps[1].data # NULL THEN steps[1].data
                                ELSE tokenRow.name,
                       decimals |-> IF steps[2].data # NULL THEN steps[2].data
                                    ELSE tokenRow.decimals,
                       last_enrich_errors |-> errors,
                       enrich_count |-> tokenRow.enrich_count + 1]
       /\ enrichment' = Some([answers |-> answers,
                              insert |-> insert,
                              logs |-> [s \in DOMAIN Stages |-> steps[s].log],
                              holderSnapshot |-> steps[3].data # NULL,
                              errors |-> errors,
                              updated |-> TRUE])
    /\ UNCHANGED retried

\* what the API answers to the successive requests of one fetch: the data, or
\* a number of failures of one kind first
FailingFirst(n, answer) == [k \in 1..MAX_RETRIES |-> IF k <= n THEN answer ELSE "ok"]

AnswerScripts ==
    {FailingFirst(n, answer) : n \in 0..MAX_RETRIES, answer \in {"http503", "network"}}

EnrichInit ==
    /\ retried = None
    /\ tokenRow = [name |-> NULL, decimals |-> NULL, last_enrich_errors |-> <<>>,
                   enrich_count |-> 0]
    /\ enrichment = None

EnrichNext ==
    \E answers \in [DOMAIN Stages -> AnswerScripts], insert \in {"ok", "error"} :
        EnrichToken(answers, insert)

----------------------------------------------------------------------------
(* The process (main, shutdown) and the worker loops (startScoreWorker,     *)
(* startEnrichWorker).  A function runs from one await to the next without  *)
(* yielding; each action is one such stretch.                               *)

MaxCalls == 2         \* calls of start and stop functions from outside followed
TimerStepMs == 5000   \* time that passes in one step, in ms

SCORE_INTERVAL_MS == 10000
ENRICH_INTERVAL_MS == 15000

Workers == {"enrich", "score"}

IntervalOf(w) == IF w = "score" THEN SCORE_INTERVAL_MS ELSE ENRICH_INTERVAL_MS

\* a loop right after it called scoreBatch() or enrichBatch()
InBatch == [pc |-> "batch", remaining |-> 0]

\* a loop right after it called sleep(ms)
Asleep(ms) == [pc |-> "sleep", remaining |-> ms]

\* a start function without its test of isRunning
StartWorkerUnguarded(wr) ==
    [isRunning |-> TRUE, shouldStop |-> FALSE, loops |-> Append(wr.loops, InBatch)]

\* a start function that resets shouldStop before its test of isRunning
StartWorkerResetsFirst(wr) ==
    IF wr.isRunning THEN [wr EXCEPT !.shouldStop = FALSE]
    ELSE [isRunning |-> TRUE, shouldStop |-> FALSE, loops |-> Append(wr.loops, InBatch)]

\* startScoreWorker / startEnrichWorker up to the first await: the module
\* state after the call
StartWorker(wr) ==
    IF wr.isRunning THEN wr
    ELSE [isRunning |-> TRUE, shouldStop |-> FALSE, loops |-> Append(wr.loops, InBatch)]

\* stopScoreWorker / stopEnrichWorker
StopWorker(wr) == [wr EXCEPT !.shouldStop = TRUE]

\* a loop over the tokens that lets the first exception out
RECURSIVE ScoreLoopNoCatch(_, _, _)
ScoreLoopNoCatch(outcomes, i, completed) ==
    IF i > Len(outcomes) THEN [completed |-> completed, escaped |-> FALSE]
    ELSE IF outcomes[i] = "throw" THEN [completed |-> completed, escaped |-> TRUE]
    ELSE ScoreLoopNoCatch(outcomes, i + 1, completed \cup {i})

\* the for loop of scoreBatch from token i on: the tokens scored
RECURSIVE ScoreLoop(_, _, _)
ScoreLoop(outcomes, i, completed) ==
    IF i > Len(outcomes) THEN [completed |-> completed, escaped |-> FALSE]
    ELSE ScoreLoop(outcomes, i + 1,
                   IF outcomes[i] = "ok" THEN completed \cup {i} ELSE completed)

\* scoreBatch: listing is how getActiveTokens ends, outcomes how scoreToken
\* ends for each token
ScoreBatch(listing, outcomes) ==
    IF listing = "throw" THEN [completed |-> {}, escaped |-> TRUE]
    ELSE ScoreLoop(outcomes, 1, {})

\* enrichBatch: Promise.allSettled over enrichToken of every token
EnrichBatch(listing, outcomes) ==
    IF listing = "throw" THEN [completed |-> {}, escaped |-> TRUE]
    ELSE [completed |-> {i \in DOMAIN outcomes : outcomes[i] = "ok"}, escaped |-> FALSE]

RunBatch(w, listing, outcomes) ==
    IF w = "score" THEN ScoreBatch(listing, outcomes) ELSE EnrichBatch(listing, outcomes)

\* the workers with a batch in flight
InFlight ==
    {w \in Workers : \E k \in DOMAIN workers[w].loops : workers[w].loops[k].pc = "batch"}

\* process.exit(code)
Exit(code) ==
    /\ exitCode' = Some(code)
    /\ interrupted' = InFlight

Alive == exitCode = None

\* a main that goes on whatever testConnection returned
MainAfterTestUnchecked(dbOk) == "startServer"

\* what main does with the result of testConnection
MainAfterTest(dbOk) == IF ~dbOk THEN "exit" ELSE "startServer"

\* main up to await testConnection()
MainValidates(envOk) ==
    /\ Alive /\ mainPc = "validateEnv"
    /\ IF envOk
       THEN mainPc' = "testConnection" /\ UNCHANGED <<exitCode, interrupted>>
       ELSE mainPc' = "exit" /\ Exit(1)
    /\ UNCHANGED <<dbTest, listening, shutdownPc, workers, lastBatch, lastCall, calls>>

\* main from the result of testConnection to await startServer()
MainTested(dbOk) ==
    /\ Alive /\ mainPc = "testConnection"
    /\ dbTest' = Some(dbOk)
    /\ mainPc' = MainAfterTest(dbOk)
    /\ IF MainAfterTest(dbOk) = "exit" THEN Exit(1) ELSE UNCHANGED <<exitCode, interrupted>>
    /\ UNCHANGED <<listening, shutdownPc, workers, lastBatch, lastCall, calls>>

\* main from the end of fastify.listen to its return: the two workers are
\* started; a failure to listen rejects main, whose catch exits
MainListened(ok) ==
    /\ Alive /\ mainPc = "startServer"
    /\ IF ok
       THEN /\ listening' = TRUE
            /\ workers' = [w \in Workers |-> StartWorker(workers[w])]
            /\ mainPc' = "started"
            /\ UNCHANGED <<exitCode, interrupted>>
       ELSE /\ mainPc' = "exit"
            /\ Exit(1)
            /\ UNCHANGED <<listening, workers>>
    /\ UNCHANGED <<dbTest, shutdownPc, lastBatch, lastCall, calls>>

\* shutdown(signal) up to await stopServer()
Shutdown ==
    /\ Alive /\ shutdownPc = "none"
    /\ shutdownPc' = "closing"
    /\ workers' = [w \in Workers |-> StopWorker(workers[w])]
    /\ UNCHANGED <<mainPc, dbTest, listening, exitCode, lastBatch, lastCall, calls,
                   interrupted>>

\* shutdown from the end of stopServer: process.exit(0)
ShutdownExits ==
    /\ Alive /\ shutdownPc = "closing"
    /\ shutdownPc' = "exited"
    /\ listening' = FALSE
    /\ Exit(0)
    /\ UNCHANGED <<mainPc, dbTest, workers, lastBatch, lastCall, calls>>

\* a call of the start function of worker w while the application runs
CallStart(w) ==
    /\ Alive /\ mainPc = "started" /\ calls < MaxCalls
    /\ workers' = [workers EXCEPT ![w] = StartWorker(@)]
    /\ lastCall' = Some([name |-> "start", worker |-> w, n |-> calls + 1])
    /\ calls' = calls + 1
    /\ UNCHANGED <<mainPc, dbTest, listening, shutdownPc, exitCode, lastBatch, interrupted>>

\* a call of the stop function of worker w while the application runs
CallStop(w) ==
    /\ Alive /\ mainPc = "started" /\ calls < MaxCalls
    /\ workers' = [workers EXCEPT ![w] = StopWorker(@)]
    /\ lastCall' = Some([name |-> "stop", worker |-> w, n |-> calls + 1])
    /\ calls' = calls + 1
    /\ UNCHANGED <<mainPc, dbTest, listening, shutdownPc, exitCode, lastBatch, interrupted>>

\* the batch of a loop of worker w ends, returning or throwing into the catch
\* of the loop, which then calls sleep
BatchEnds(w, listing, outcomes) ==
    /\ Alive
    /\ \E k \in DOMAIN workers[w].loops :
          /\ workers[w].loops[k].pc = "batch"
          /\ workers' = [workers EXCEPT ![w].loops[k] = Asleep(IntervalOf(w))]
    /\ lastBatch' = Some([worker |-> w, listing |-> listing, outcomes |-> outcomes]
                             @@ RunBatch(w, listing, outcomes))
    /\ UNCHANGED <<mainPc, dbTest, listening, shutdownPc, exitCode, lastCall, calls,
                   interrupted>>

\* time passes for the timers of the loops asleep
TimePasses ==
    /\ Alive
    /\ \E w \in Workers : \E k \in DOMAIN workers[w].loops :
          workers[w].loops[k].remaining > 0
    /\ workers' = [w \in Workers |->
                     [workers[w] EXCEPT
                        !.loops = [k \in DOMAIN @ |->
                                     IF @[k].remaining > TimerStepMs
                                     THEN [@[k] EXCEPT !.remaining = @ - TimerStepMs]
                                     ELSE [@[k] EXCEPT !.remaining = 0]]]]
    /\ UNCHANGED <<mainPc, dbTest, listening, shutdownPc, exitCode, lastBatch, lastCall,
                   calls, interrupted>>

\* a sequence without its element at position k
Without(seq, k) == SubSeq(seq, 1, k - 1) \o SubSeq(seq, k + 1, Len(seq))

\* the timer of a loop asleep fires: the while test, then the next batch or
\* the end of the loop
Wakes(w) ==
    /\ Alive
    /\ \E k \in DOMAIN workers[w].loops :
          /\ workers[w].loops[k].pc = "sleep"
          /\ workers[w].loops[k].remaining = 0
          /\ workers' = [workers EXCEPT
                           ![w] = IF @.shouldStop
                                  THEN [@ EXCEPT !.isRunning = FALSE,
                                                 !.loops = Without(@, k)]
                                  ELSE [@ EXCEPT !.loops[k] = InBatch]]
    /\ UNCHANGED <<mainPc, dbTest, listening, shutdownPc, exitCode, lastBatch, lastCall,
                   calls, interrupted>>

\* how enrichToken or scoreToken ends for each token of a batch: batches of
\* no token, of one and of two
TokenOutcomes ==
    {<<>>, <<"ok">>, <<"throw">>, <<"ok", "ok">>, <<"ok", "throw">>, <<"throw", "ok">>,
     <<"throw", "throw">>}

\* a batch ends: its tokens could not be listed, or they were and each one
\* ended in its way
SomeBatchEnds(w) ==
    \/ BatchEnds(w, "throw", <<>>)
    \/ \E outcomes \in TokenOutcomes : BatchEnds(w, "ok", outcomes)

WorkerInit ==
    /\ mainPc = "validateEnv"
    /\ dbTest = None
    /\ listening = FALSE
    /\ shutdownPc = "none"
    /\ exitCode = None
    /\ workers = [w \in Workers |->
                    [isRunning |-> FALSE, shouldStop |-> FALSE, loops |-> <<>>]]
    /\ lastBatch = None
    /\ lastCall = None
    /\ calls = 0
    /\ interrupted = {}

WorkerNext ==
    \/ \E envOk \in BOOLEAN : MainValidates(envOk)
    \/ \E dbOk \in BOOLEAN : MainTested(dbOk)
    \/ \E ok \in BOOLEAN : MainListened(ok)
    \/ Shutdown
    \/ ShutdownExits
    \/ \E w \in Workers : CallStart(w)
    \/ \E w \in Workers : CallStop(w)
    \/ \E w \in Workers : SomeBatchEnds(w)
    \/ TimePasses
    \/ \E w \in Workers : Wakes(w)

----------------------------------------------------------------------------
(* The LRUCache class on its own *)

LruMaxSize == 2       \* largest maxSize an LRUCache is constructed with

\* new LRUCache(maxSize)
NewLRUCache(maxSize) ==
    /\ lru = None
    /\ lru' = Some([maxSize |-> maxSize, cache |-> <<>>])
    /\ lruOp' = [name |-> "new", key |-> 0, ret |-> NULL]

\* the object after a method has left its Map as c
WithCache(c) == Some([maxSize |-> lru[1].maxSize, cache |-> c])

\* lru.has(key)
CacheHas(key) ==
    /\ lru # None
    /\ lru' = WithCache(LRUHas(lru[1].cache, key).cache)
    /\ lruOp' = [name |-> "has", key |-> key, ret |-> LRUHas(lru[1].cache, key).ret]

\* lru.get(key)
CacheGet(key) ==
    /\ lru # None
    /\ lru' = WithCache(LRUGet(lru[1].cache, key).cache)
    /\ lruOp' = [name |-> "get", key |-> key, ret |-> LRUGet(lru[1].cache, key).ret]

\* lru.add(key)
CacheAdd(key) ==
    /\ lru # None
    /\ lru' = WithCache(LRUAdd(lru[1].cache, key, lru[1].maxSize))
    /\ lruOp' = [name |-> "add", key |-> key, ret |-> NULL]

\* lru.delete(key)
CacheDelete(key) ==
    /\ lru # None
    /\ lru' = WithCache(LRUDelete(lru[1].cache, key).cache)
    /\ lruOp' = [name |-> "delete", key |-> key, ret |-> LRUDelete(lru[1].cache, key).ret]

\* lru.clear()
CacheClear ==
    /\ lru # None
    /\ lru' = WithCache(LRUClear(lru[1].cache))
    /\ lruOp' = [name |-> "clear", key |-> 0, ret |-> NULL]

\* lru.size()
CacheSize ==
    /\ lru # None
    /\ lru' = lru
    /\ lruOp' = [name |-> "size", key |-> 0, ret |-> LRUSize(lru[1].cache)]

LruInit ==
    /\ lru = None
    /\ lruOp = [name |-> "none", key |-> 0, ret |-> NULL]

LruNext ==
    \/ /\ \/ \E maxSize \in 1..LruMaxSize : NewLRUCache(maxSize)
          \/ \E key \in Sigs : CacheHas(key)
          \/ \E key \in Sigs : CacheGet(key)
          \/ \E key \in Sigs : CacheAdd(key)
          \/ \E key \in Sigs : CacheDelete(key)
          \/ CacheClear
          \/ CacheSize
       /\ UNCHANGED <<cacheVars, now, parseVars, scoreVars, alertVars>>
    \/ Tick /\ UNCHANGED lruVars

----------------------------------------------------------------------------
(* Specifications *)

CacheInit ==
    /\ signatureCache = <<>>
    /\ mintCache = <<>>
    /\ eventCache = <<>>
    /\ op = [name |-> "init", key |-> NULL, ret |-> NULL]
    /\ recency = <<>>
    /\ firstAdded = 0
    /\ nAdded = 0

Init ==
    /\ CacheInit
    /\ ParseInit
    /\ now = StartTime
    /\ tokenState = ScenarioMissing
    /\ ScoreIdle
    /\ AlertInit
    /\ config = "on"
    /\ ServerInit
    /\ MetricsInit
    /\ EnrichInit
    /\ WorkerInit
    /\ LruInit
    /\ DeliveryInit

\* the input of score() is any of the token states
InitScore ==
    /\ CacheInit
    /\ ParseInit
    /\ now = StartTime
    /\ tokenState \in TokenStates
    /\ ScoreIdle
    /\ AlertInit
    /\ config = "on"
    /\ ServerInit
    /\ MetricsInit
    /\ EnrichInit
    /\ WorkerInit
    /\ LruInit
    /\ DeliveryInit

\* the alert steps of one token, under any configuration
InitAlert ==
    /\ CacheInit
    /\ ParseInit
    /\ now = StartTime
    /\ tokenState = ScenarioMissing
    /\ ScoreIdle
    /\ AlertInit
    /\ config \in Configs
    /\ ServerInit
    /\ MetricsInit
    /\ EnrichInit
    /\ WorkerInit
    /\ LruInit
    /\ DeliveryInit

CacheNext ==
    \/ \E s \in Sigs : HasSeenSignature(s)
    \/ \E s \in Sigs : MarkSignatureSeen(s)
    \/ \E s \in Sigs : CheckAndMarkSignature(s)
    \/ \E m \in Mints : HasSeenMint(m)
    \/ \E m \in Mints : MarkMintSeen(m)
    \/ \E e \in EventIds : HasProcessedEvent(e)
    \/ \E e \in EventIds : MarkEventProcessed(e)
    \/ ClearAllCaches

\* the dedupe functions called directly
SpecCache ==
    Init /\ [][CacheNext /\ UNCHANGED <<now, parseVars, scoreVars, alertVars, serverVars, metricsVars, enrichVars, workerVars, lruVars, deliveryVars>>]_vars

\* webhook payloads through the normalizer
SpecParse == Init /\ [][ParseNext /\ UNCHANGED <<scoreVars, alertVars, serverVars, metricsVars, enrichVars, workerVars, lruVars, deliveryVars>>]_vars

\* score() on the token states, while time passes
SpecScore == InitScore /\ [][ScoreNext /\ UNCHANGED <<alertVars, serverVars, metricsVars, enrichVars, workerVars, lruVars, deliveryVars>>]_vars

\* scoring cycles of one token through the alert step, while time passes
SpecAlert == InitAlert /\ [][AlertNext /\ UNCHANGED <<serverVars, metricsVars, enrichVars, workerVars, lruVars, deliveryVars>>]_vars

\* webhook requests, their deferred processing into the swaps table, restarts
SpecServer == Init /\ [][ServerNext /\ UNCHANGED <<metricsVars, enrichVars, workerVars, lruVars, deliveryVars>>]_vars

\* retryWithBackoff on functions that return or throw
SpecRetry ==
    Init /\ [][RetryNext /\ UNCHANGED <<cacheVars, now, parseVars, scoreVars, alertVars,
                                       serverVars, metricsVars, workerVars, lruVars, deliveryVars>>]_vars

\* enrichments of one token against an API that answers or fails
SpecEnrich ==
    Init /\ [][EnrichNext /\ UNCHANGED <<cacheVars, now, parseVars, scoreVars, alertVars,
                                        serverVars, metricsVars, workerVars, lruVars, deliveryVars>>]_vars

\* the process from main to process.exit, its two worker loops, signals
SpecWorker ==
    Init /\ [][WorkerNext /\ UNCHANGED <<cacheVars, now, parseVars, scoreVars, alertVars,
                                        serverVars, metricsVars, enrichVars, lruVars, deliveryVars>>]_vars

\* the same, where time passes, timers fire and the awaits of a batch settle
SpecWorkerLive ==
    /\ SpecWorker
    /\ WF_workerVars(TimePasses)
    /\ WF_workerVars(Wakes("enrich")) /\ WF_workerVars(Wakes("score"))
    /\ WF_workerVars(SomeBatchEnds("enrich")) /\ WF_workerVars(SomeBatchEnds("score"))

\* webhook deliveries of one process whose callbacks interleave at their awaits
SpecDeliveries ==
    Init /\ [][DeliveryNext /\ UNCHANGED <<metricsVars, enrichVars, workerVars, lruVars>>]_vars

\* the methods of one LRUCache object, while time passes
SpecLRU ==
    Init /\ [][LruNext /\ UNCHANGED <<serverVars, metricsVars, enrichVars, workerVars,
                                     deliveryVars>>]_vars

\* getSwapMetrics on the swaps of a token, while time passes
SpecMetrics == Init /\ [][MetricsNext /\ UNCHANGED <<enrichVars, workerVars, lruVars, deliveryVars>>]_vars

----------------------------------------------------------------------------
(* Claims about the deduplication caches, checked under SpecCache *)

Last(s) == s[Len(s)]

SigMarkOps == {"markSignatureSeen", "checkAndMarkSignature"}

\* C1: a checkAndMarkSignature call returns true exactly when its key has not been
\* recorded, or has been removed from the cache since it was last recorded: the
\* first call for a key returns true and every later call returns false until the
\* key is evicted.
C1_FirstCallTrueLaterCallsFalse ==
    [][op'.name = "checkAndMarkSignature"
        => op'.ret = (op'.key \notin Range(recency))]_vars

C1_Witness ==
    /\ op.name = "checkAndMarkSignature"
    /\ op.ret = FALSE
    /\ op.key \in Range(signatureCache)

\* C3: an add of an absent key to a full cache removes exactly one key, the one
\* whose last touch is the oldest; capacity+1 distinct keys marked into an empty
\* cache leave all of them cached but the first one.
C3_EvictsLeastRecentlyUsed ==
    /\ [][(/\ op'.name \in SigMarkOps
           /\ Len(signatureCache) = SigCacheMax
           /\ op'.key \notin Range(signatureCache))
          => /\ recency # <<>>
             /\ Range(signatureCache') =
                    (Range(signatureCache) \ {Head(recency)}) \cup {op'.key}
             /\ Len(signatureCache') = SigCacheMax]_vars
    /\ [](nAdded = SigCacheMax + 1
          => /\ firstAdded \notin Range(signatureCache)
             /\ Len(signatureCache) = SigCacheMax)

C3_Witness ==
    /\ nAdded = SigCacheMax + 1
    /\ op.name \in SigMarkOps
    /\ firstAdded \notin Range(signatureCache)

\* C4 as stated: a seen call (hasSeenSignature, hasSeenMint, hasProcessedEvent)
\* leaves the eviction order of every cache as it was.
C4_SeenKeepsEvictionOrder ==
    [][op'.name \in {"hasSeenSignature", "hasSeenMint", "hasProcessedEvent"}
        => /\ signatureCache' = signatureCache
           /\ mintCache' = mintCache
           /\ eventCache' = eventCache]_vars

HasEffect(before, after, key, ret) ==
    /\ Range(after) = Range(before)
    /\ Len(after) = Len(before)
    /\ ret = (key \in Range(before))
    /\ MapDelete(after, key) = MapDelete(before, key)
    /\ key \in Range(before) => Last(after) = key

\* C4 amended: a seen call never changes which keys are cached, their number or
\* the relative order of the other keys, but on a hit it moves the key to the
\* most-recently-used end, so that key becomes the last to be evicted.
C4_SeenPromotesOnHit ==
    [][/\ op'.name = "hasSeenSignature"
          => /\ HasEffect(signatureCache, signatureCache', op'.key, op'.ret)
             /\ UNCHANGED <<mintCache, eventCache>>
       /\ op'.name = "hasSeenMint"
          => /\ HasEffect(mintCache, mintCache', op'.key, op'.ret)
             /\ UNCHANGED <<signatureCache, eventCache>>
       /\ op'.name = "hasProcessedEvent"
          => /\ HasEffect(eventCache, eventCache', op'.key, op'.ret)
             /\ UNCHANGED <<signatureCache, mintCache>>]_vars

C4_Witness ==
    /\ op.name = "hasSeenSignature"
    /\ op.ret = TRUE
    /\ Len(signatureCache) >= 2
    /\ Last(signatureCache) = op.key
    /\ Head(recency) # op.key

MarkEffect(before, after, key) ==
    /\ after # <<>>
    /\ Last(after) = key
    /\ key \in Range(before)
         => /\ Range(after) = Range(before)
            /\ Len(after) = Len(before)

\* C5: mark and checkAndMark leave their key at the most-recently-used end, also
\* when the key was already cached (checkAndMark then returns false), and a mark
\* of a cached key changes neither the set of cached keys nor the cache size.
C5_MarkPromotesAndIsIdempotent ==
    [][/\ op'.name \in SigMarkOps
          => MarkEffect(signatureCache, signatureCache', op'.key)
       /\ op'.name = "checkAndMarkSignature" /\ op'.key \in Range(signatureCache)
          => op'.ret = FALSE
       /\ op'.name = "markMintSeen"
          => MarkEffect(mintCache, mintCache', op'.key)
       /\ op'.name = "markEventProcessed"
          => MarkEffect(eventCache, eventCache', op'.key)]_vars

C5_Witness ==
    /\ op.name = "checkAndMarkSignature"
    /\ op.ret = FALSE
    /\ Len(signatureCache) = SigCacheMax
    /\ Last(signatureCache) = op.key
    /\ Head(recency) # op.key

----------------------------------------------------------------------------
(* Claims about the normalizer, checked under SpecParse *)

SignatureAt(i) == IF trace[i].tx = None THEN 0 ELSE trace[i].tx[1].signature

CountWhere(list, Test(_)) == Len(SelectSeq(list, Test))

\* the turns of the last call at which signature s was not recorded yet
FirstTurns(s) == {k \in DOMAIN trace : SignatureAt(k) = s /\ ~trace[k].recorded}

\* C2: an event whose signature is already recorded (fed earlier in the same
\* batch or in an earlier batch, and not evicted since) contributes no token, no
\* swap and no pool, so an event fed twice is normalized once: the swaps and
\* pools of a signature in the result come from the turns at which the signature
\* was not recorded, and the tokens from the turns that returned one.
C2_SecondOccurrenceContributesNothing ==
    /\ \A i \in DOMAIN trace : trace[i].recorded => trace[i].parsed = EmptyParsed
    /\ \A s \in Sigs :
          /\ CountWhere(results.swaps, LAMBDA sw : sw.signature = s)
               = Cardinality({k \in FirstTurns(s) : trace[k].parsed.swap # None})
          /\ CountWhere(results.pools, LAMBDA pl : pl.meta.signature = s)
               = Cardinality({k \in FirstTurns(s) : trace[k].parsed.pool # None})
    /\ Len(results.tokens)
         = Cardinality({k \in DOMAIN trace :
                           ~trace[k].recorded /\ trace[k].parsed.token # None})

\* the same swap event twice in one batch: one swap and one token come out
C2_Witness ==
    /\ Len(trace) = 2
    /\ trace[1].tx = trace[2].tx
    /\ SignatureAt(1) # 0
    /\ ~trace[1].recorded /\ trace[1].parsed.swap # None
    /\ trace[2].recorded
    /\ Len(results.swaps) = 1 /\ Len(results.tokens) = 1 /\ Len(results.pools) = 0

----------------------------------------------------------------------------
(* Claims about score(), checked under SpecScore *)

\* C6: for every input token state, missing metrics, holders, pool or token
\* included, score() returns an integer score in the closed interval [0, 100].
C6_ScoreIsIntegerInRange ==
    last # None => last[1].result.score \in 0..100

\* the penalties outweigh the points and the score is clamped to 0
C6_Witness ==
    /\ last # None
    /\ TotalScore(last[1].result.components) < 0
    /\ last[1].result.score = 0

WithoutFlag(flags, flag) ==
    LET keep(f) == f # flag IN SelectSeq(flags, keep)

\* C7: two evaluations of score() on the same token state return the same score,
\* the same reasons and the same components, whenever they are made and whatever
\* was scored in between; their risk flags differ at most in the token-age flag.
C7_ScoreIsDeterministic ==
    (first # None /\ last # None /\ last[1].input = tokenState)
        => /\ last[1].result.score = first[1].result.score
           /\ last[1].result.reasons = first[1].result.reasons
           /\ last[1].result.components = first[1].result.components
           /\ WithoutFlag(last[1].result.risk_flags, RISK_FLAGS.NEW_TOKEN.flag)
                = WithoutFlag(first[1].result.risk_flags, RISK_FLAGS.NEW_TOKEN.flag)

\* the token was new at the first evaluation and no longer is at the second one,
\* made after another input was scored
C7_Witness ==
    /\ first # None /\ last # None /\ last[1].input = tokenState
    /\ interleaved
    /\ last[1].at > first[1].at
    /\ last[1].result.risk_flags # first[1].result.risk_flags

AllMetricsZero(ts) ==
    /\ ts.metrics # None
    /\ \A f \in MetricsFields : ts.metrics[1][f] = 0

NoAuthorities(ts) ==
    ~HasAuthority(ts.token, "mint_authority") /\ ~HasAuthority(ts.token, "freeze_authority")

NoConcentration(ts) ==
    Field(ts.holders, "top10_pct") = 0 /\ Field(ts.holders, "top1_pct") = 0

\* all metrics zero, holder_count 0, no pool liquidity, no authorities, no
\* concentration
IsScenarioC(ts) ==
    /\ AllMetricsZero(ts)
    /\ Field(ts.holders, "holder_count") = 0
    /\ Field(ts.pool, "liquidity_usd") = 0
    /\ NoAuthorities(ts)
    /\ NoConcentration(ts)

HasScenarioCFlags(flags) ==
    {RISK_FLAGS.LOW_LIQUIDITY.flag, RISK_FLAGS.LOW_HOLDERS.flag, RISK_FLAGS.NO_VOLUME.flag}
        \subseteq Range(flags)

\* C8 as stated: in scenario C (all metrics zero, holder_count 0, no authorities,
\* no concentration) score() returns score = 0 and the low-liquidity,
\* low-holder-count and no-recent-volume flags.
C8_ScenarioCScoresZero ==
    (last # None /\ IsScenarioC(last[1].input))
        => /\ last[1].result.score = 0
           /\ HasScenarioCFlags(last[1].result.risk_flags)

\* C8: in scenario C (all metrics zero, holder_count 0, no authorities, no
\* concentration) score() returns score = 4, the points of the 50% buy-pressure
\* tier that the default buy ratio 0.5 earns when there is no volume, every other
\* component giving 0; risk_flags contains the low-liquidity, low-holder-count
\* and no-recent-volume flags.
C8_ScenarioCScoresBuyPressureDefault ==
    (last # None /\ IsScenarioC(last[1].input))
        => /\ last[1].result.score = 4
           /\ last[1].result.components.buy_pressure.value = Divide(1, 2)
           /\ last[1].result.components.buy_pressure.points = 4
           /\ \A name \in Range(PositiveOrder) \ {"buy_pressure"} :
                 last[1].result.components[name].points = 0
           /\ HasScenarioCFlags(last[1].result.risk_flags)

C8_Witness ==
    /\ last # None
    /\ IsScenarioC(last[1].input)
    /\ last[1].input.token # None
    /\ last[1].input.holders # None

\* the metrics of scenario A, with no authorities and no concentration
IsScenarioA(ts) ==
    /\ ts.metrics # None
    /\ ts.metrics[1].liquidity_usd = 60000
    /\ ts.metrics[1].unique_buyers_1m = 25
    /\ ts.metrics[1].swaps_1m = 50
    /\ ts.metrics[1].volume_usd_1m = 60000
    /\ OrElse(Field(ts.holders, "holder_count"), ts.metrics[1].holder_count) = 250
    /\ ts.metrics[1].unique_buyers_5m = 60
    /\ ts.metrics[1].buy_volume_usd_1m = 42000
    /\ ts.metrics[1].sell_volume_usd_1m = 18000
    /\ NoAuthorities(ts)
    /\ NoConcentration(ts)

ScenarioAPoints ==
    [liquidity |-> 25, unique_buyers_1m |-> 20, swaps_1m |-> 15, volume_1m |-> 10,
     holder_count |-> 10, unique_buyers_5m |-> 10, buy_pressure |-> 10]

\* C9: in scenario A every positive component awards its maximum
\* (25+20+15+10+10+10+10) and the score is 100; for no input do the positive
\* components sum to more than 100.
C9_ScenarioAScoresHundred ==
    last # None
        => /\ SumPoints(last[1].result.components, PositiveOrder) <= 100
           /\ IsScenarioA(last[1].input)
                => /\ \A name \in Range(PositiveOrder) :
                         /\ last[1].result.components[name].points = ScenarioAPoints[name]
                         /\ last[1].result.components[name].maxPoints = ScenarioAPoints[name]
                   /\ SumPoints(last[1].result.components, PositiveOrder) = 100
                   /\ last[1].result.score = 100

C9_Witness ==
    /\ last # None
    /\ IsScenarioA(last[1].input)
    /\ last[1].input.metrics[1].price_change_5m = 0

PenaltyNames == {"top10_concentration", "top1_concentration"}

\* the value a concentration component was evaluated on: 0 when it is not set
PenaltyValue(component) == IF component = None THEN Num(0) ELSE component[1].value

\* the token states that differ from ts in one field of one record
OneFieldChanged(ts) ==
    (IF ts.metrics = None THEN {}
     ELSE UNION {{[ts EXCEPT !.metrics = Some([ts.metrics[1] EXCEPT ![f] = v])] :
                    v \in MetricsValues(f)} : f \in MetricsFields})
    \cup (IF ts.holders = None THEN {}
          ELSE UNION {{[ts EXCEPT !.holders = Some([ts.holders[1] EXCEPT ![f] = v])] :
                         v \in HoldersValues(f)} : f \in HoldersFields})
    \cup {[ts EXCEPT !.pool = p] : p \in {None, Pool(5000), Pool(60000)}}

\* the positive components other than `name` are evaluated on the same values
OthersFixed(c, d, name) ==
    \A other \in Range(PositiveOrder) \ {name} : c[other].value = d[other].value

\* score(tokenState) has just returned for the first time
FirstScored ==
    /\ first # None /\ last # None
    /\ last[1].input = tokenState
    /\ last[1].at = first[1].at
    /\ now = first[1].at
    /\ ~interleaved

Top10Pct == Field(last[1].input.holders, "top10_pct")

Top1Pct == Field(last[1].input.holders, "top1_pct")

MintAuthorityPresent ==
    last[1].input.token # None /\ last[1].input.token[1].mint_authority # NULL

FreezeAuthorityPresent ==
    last[1].input.token # None /\ last[1].input.token[1].freeze_authority # NULL

\* the authority flags among the risk flags of the last result
AuthorityFlags ==
    Range(last[1].result.risk_flags)
        \cap {"FULL_AUTHORITY_RISK", "MINT_AUTHORITY_RISK", "FREEZE_AUTHORITY_RISK"}

\* the score of the last result is the clamped sum of its points and its
\* concentration penalties, less `subtracted`
ScoreLess(subtracted) ==
    last[1].result.score
        = Clamp(SumPoints(last[1].result.components, PositiveOrder)
                  + PenaltyOf(last[1].result.components.top10_concentration)
                  + PenaltyOf(last[1].result.components.top1_concentration)
                  - subtracted)

\* C23: with both authorities present score() subtracts 20 and raises the
\* combined flag only; with exactly one it subtracts 10 and raises the flag
\* of that authority only; with none it subtracts nothing and raises no
\* authority flag.  Scenario B scores 80 with the combined flag.
C23_AuthorityPenalty ==
    last # None =>
        /\ (MintAuthorityPresent /\ FreezeAuthorityPresent)
              => ScoreLess(20) /\ AuthorityFlags = {"FULL_AUTHORITY_RISK"}
        /\ (MintAuthorityPresent /\ ~FreezeAuthorityPresent)
              => ScoreLess(10) /\ AuthorityFlags = {"MINT_AUTHORITY_RISK"}
        /\ (~MintAuthorityPresent /\ FreezeAuthorityPresent)
              => ScoreLess(10) /\ AuthorityFlags = {"FREEZE_AUTHORITY_RISK"}
        /\ (~MintAuthorityPresent /\ ~FreezeAuthorityPresent)
              => ScoreLess(0) /\ AuthorityFlags = {}
        /\ last[1].input = ScenarioB
              => /\ last[1].result.score = 80
                 /\ "FULL_AUTHORITY_RISK" \in Range(last[1].result.risk_flags)

\* scenario B was scored
C23_Witness ==
    /\ last # None
    /\ last[1].input = ScenarioB
    /\ last[1].result.score = 80
    /\ last[1].result.components.authority # None
    /\ last[1].result.components.authority[1].penalty = -20

\* the token states that differ from ts in first_seen_at only, or in
\* price_change_5m only
AgeOrPriceChanged(ts) ==
    ((IF ts.token = None THEN {}
      ELSE {[ts EXCEPT !.token = Some([ts.token[1] EXCEPT !.first_seen_at = v])] :
               v \in FirstSeenValues})
     \cup (IF ts.metrics = None THEN {}
           ELSE {[ts EXCEPT !.metrics = Some([ts.metrics[1] EXCEPT !.price_change_5m = v])] :
                    v \in PriceChangeValues})) \ {ts}

\* C24: a token state that differs from the one just scored in first_seen_at
\* only or in price_change_5m only gets the same score, the same reasons and
\* the same components; the results differ in their risk flags at most.
C24_FlagsDoNotScore ==
    FirstScored
        => \A other \in {Score(ts, now) : ts \in AgeOrPriceChanged(last[1].input)} :
              /\ other.score = last[1].result.score
              /\ other.reasons = last[1].result.reasons
              /\ other.components = last[1].result.components

\* a token state was scored whose younger twin and whose twin with a price
\* drop get other risk flags
C24_Witness ==
    /\ FirstScored
    /\ \E ts \in AgeOrPriceChanged(last[1].input) :
          /\ ts.token # last[1].input.token
          /\ Score(ts, now).risk_flags # last[1].result.risk_flags
    /\ \E ts \in AgeOrPriceChanged(last[1].input) :
          /\ ts.metrics # last[1].input.metrics
          /\ Score(ts, now).risk_flags # last[1].result.risk_flags

----------------------------------------------------------------------------
(* Claims about the alert state machine, checked under SpecAlert *)

\* the row the last cycle started from; a token without a row is Unalerted
PriorRow == IF cycle[1].prior = None THEN NewAlert ELSE cycle[1].prior[1]

\* C11: from the Unalerted state (last_score null) shouldAlert decides Send if and
\* only if (score >= SCORE_THRESHOLD and no mint-authority, freeze-authority or
\* combined-authority flag is present) or score >= SCORE_THRESHOLD_WITH_FLAGS;
\* in every other case it decides Suppress.
C11_SendFromUnalerted ==
    (cycle # None /\ PriorRow.last_score = None)
        => LET s == cycle[1].input.score
               hard == Range(cycle[1].input.risk_flags) \cap HardFlags # {}
           IN
           /\ cycle[1].decision \in {"Send", "Suppress"}
           /\ cycle[1].decision = "Send"
                <=> ((s >= SCORE_THRESHOLD /\ ~hard) \/ s >= SCORE_THRESHOLD_WITH_FLAGS)

\* an Unalerted token with a hard flag is held back at 75 and sent at 80
C11_Witness ==
    /\ cycle # None /\ PriorRow.last_score = None
    /\ Range(cycle[1].input.risk_flags) \cap HardFlags # {}
    /\ cycle[1].input.score = SCORE_THRESHOLD_WITH_FLAGS
    /\ cycle[1].decision = "Send"
    /\ cycle[1].check.reason = "NEW_VERY_HIGH_SCORE"

IsPrefix(s, t) == Len(s) <= Len(t) /\ s = SubSeq(t, 1, Len(s))

\* C13: with the default thresholds, an Unalerted token scoring 75 with no hard
\* flags is sent (and the alert recorded); scoring 83 with unchanged flags in the
\* next cycle it is suppressed; scoring 60 in the cycle after that it gets an
\* update.
C13_AlertStateScenario ==
    followed.on => IsPrefix(followed.decisions, <<"Send", "Suppress", "Update">>)

C13_Witness ==
    /\ followed.on
    /\ followed.decisions = <<"Send", "Suppress", "Update">>

\* C14: on a Suppress decision the row of the token keeps last_score,
\* last_sent_at, the message handle, alert_count and last_risk_flags as they were
\* before the cycle (all empty if the cycle created the row), so the next decision
\* is made against the score and flags of the last recorded notification.
C14_SuppressLeavesAlertState ==
    (cycle # None /\ cycle[1].decision = "Suppress")
        => /\ alert # None
           /\ alert[1] = PriorRow
           /\ cycle[1].dispatch = NoDispatch

\* an Alerted token is suppressed
C14_Witness ==
    /\ cycle # None /\ cycle[1].decision = "Suppress"
    /\ cycle[1].prior # None
    /\ cycle[1].prior[1].last_score # None
    /\ cycle[1].input.score # cycle[1].prior[1].last_score[1]

\* sendMessage was called and returned no result
SendFailed(c) == c.dispatch.sendTried /\ c.dispatch.result = None

\* C15: when sendMessage returns no result, as the first attempt or as the
\* fallback after a failed edit, the row is not updated, and the cycle that
\* follows with the same score result reaches the same decision.
C15_SendFailureLeavesAlertState ==
    [][(cycle' # None /\ now' = now)
        => /\ SendFailed(cycle'[1]) => alert' = GetOrCreateAlert(alert)
           /\ (cycle # None /\ SendFailed(cycle[1])
                  /\ cycle'[1].input = cycle[1].input)
                => cycle'[1].decision = cycle[1].decision]_vars

\* an edit and the send after it failed, and the Update was decided again
C15_Witness ==
    /\ cycle # None
    /\ cycle[1].decision = "Update"
    /\ cycle[1].dispatch.editTried /\ ~cycle[1].dispatch.edited
    /\ SendFailed(cycle[1])
    /\ alert = cycle[1].prior

----------------------------------------------------------------------------
(* Claims about the normalized records, checked under SpecParse             *)

\* the quote assets: the wrapped native coin and the stablecoins
QuoteAssets ==
    {"So11111111111111111111111111111111111111112",
     "EPjFWdd5AufqSSqeM2qN1xzybapC8G4wEGGkZwyTDt1v",
     "Es9vMFrzaCERmJfrF4H2FYD4KCoNkY11McCe8BenwNYB"}

\* the mints an event names: those of its transfers and of its swap event
NamedMints(tx) ==
    ({TokenTransfers(tx)[i][1].mint :
        i \in {j \in DOMAIN TokenTransfers(tx) : TokenTransfers(tx)[j] # None}}
     \cup (IF tx.swapEvent # None
           THEN {tx.swapEvent[1].tokenOutputMint, tx.swapEvent[1].tokenInputMint}
           ELSE {})) \ {NULL}

\* C17: every swap, pool creation and token sighting that parseWebhookPayload
\* emits carries a mint that is neither the wrapped native coin nor a
\* stablecoin, and an event that names quote assets only yields no swap.
C17_NoQuoteAssetSubject ==
    /\ \A i \in DOMAIN results.swaps : results.swaps[i].token_mint \notin QuoteAssets
    /\ \A i \in DOMAIN results.pools : results.pools[i].token_mint \notin QuoteAssets
    /\ \A i \in DOMAIN results.tokens : results.tokens[i].mint \notin QuoteAssets
    /\ \A k \in DOMAIN trace :
          (trace[k].tx # None /\ NamedMints(trace[k].tx[1]) \subseteq QuoteAssets)
              => trace[k].parsed.swap = None

\* a swap whose swap event names a stablecoin as its only subject was discarded
C17_Witness ==
    /\ \E k \in DOMAIN trace :
          /\ trace[k].tx # None
          /\ trace[k].tx[1].type = "SWAP"
          /\ trace[k].tx[1].swapEvent # None
          /\ NamedMints(trace[k].tx[1]) # {}
          /\ NamedMints(trace[k].tx[1]) \subseteq QuoteAssets
          /\ ~trace[k].parsed.threw
          /\ trace[k].parsed.swap = None
    /\ results.swaps = <<>>
    /\ results.tokens = <<>>

\* the transfers of an event whose asset is not a quote asset, by position
SubjectTransfers(tx) ==
    {i \in DOMAIN TokenTransfers(tx) :
        /\ TokenTransfers(tx)[i] # None
        /\ TokenTransfers(tx)[i][1].mint \notin QuoteAssets}

\* the turns of the last call that emitted a swap
SwapTurns == {k \in DOMAIN trace : trace[k].parsed.swap # None}

EventSell(tx) == tx.swapEvent # None /\ tx.swapEvent[1].nativeOutput # 0

EventBuy(tx) ==
    tx.swapEvent # None /\ tx.swapEvent[1].nativeOutput = 0
        /\ tx.swapEvent[1].nativeInput # 0

\* the subject transfers that have the fee payer as receiver, as sender only
Received(tx) ==
    {i \in SubjectTransfers(tx) : TokenTransfers(tx)[i][1].toUserAccount = tx.feePayer}

SentOnly(tx) ==
    {i \in SubjectTransfers(tx) \ Received(tx) :
        TokenTransfers(tx)[i][1].fromUserAccount = tx.feePayer}

GreatestOf(set) == CHOOSE i \in set : \A j \in set : j <= i

SideOfTransfer(tx, i) ==
    IF TokenTransfers(tx)[i][1].toUserAccount = tx.feePayer THEN "buy"
    ELSE IF TokenTransfers(tx)[i][1].fromUserAccount = tx.feePayer THEN "sell"
    ELSE "unknown"

LeastOf(set) == CHOOSE i \in set : \A j \in set : i <= j

\* C21: the subject of a swap is the first transfer whose mint is not a
\* quote asset: token_mint and amount_token are those of that transfer, and
\* so is the side unless a swap event decides it; later transfers of
\* non-quote assets change none of them.
C21_FirstSubjectTransferWins ==
    \A k \in SwapTurns :
        LET tx == trace[k].tx[1]
            swap == trace[k].parsed.swap[1]
        IN
        SubjectTransfers(tx) # {} =>
            LET subject == TokenTransfers(tx)[LeastOf(SubjectTransfers(tx))][1] IN
            /\ swap.token_mint = subject.mint
            /\ swap.amount_token = subject.tokenAmount
            /\ (~EventSell(tx) /\ ~EventBuy(tx))
                  => swap.side = SideOfTransfer(tx, LeastOf(SubjectTransfers(tx)))

\* the source names of the model that name a known DEX
DexSources == {"RAYDIUM", "raydium", "ORCA", "orca", "METEORA", "PUMP_FUN",
               "PUMP.FUN", "pump.fun"}

\* the class of an event by the precedence of the kinds of evidence
ClassOf(tx) ==
    IF tx.type # NULL THEN tx.type
    ELSE IF tx.source \in DexSources THEN "SWAP"
    ELSE IF /\ tx.instructions # None
            /\ \E i \in DOMAIN tx.instructions[1] :
                   tx.instructions[1][i].programId \in DEX_PROGRAMS
    THEN "SWAP"
    ELSE IF tx.tokenTransfers # None /\ tx.tokenTransfers[1] # <<>> THEN "TRANSFER"
    ELSE "UNKNOWN"

\* the turns of the last call that passed the gate with an event
ClassifiedTurns ==
    {k \in DOMAIN trace : trace[k].tx # None /\ ~trace[k].recorded}

----------------------------------------------------------------------------
(* Claims about the webhook endpoint and the swaps table, checked under     *)
(* SpecServer                                                               *)

\* the requests whose payload has been processed, to the end or to a failure
Processed == {i \in DOMAIN requests : requests[i].state \in {"done", "failed"}}

\* C19: whatever the deliveries and the restarts, the swaps table holds at
\* most one row per signature, and the processing of a payload whose swap
\* already has its row adds nothing and logs no error.
C19_RedeliveryIsSilentNoOp ==
    /\ \A sig \in DOMAIN swapRows : swapRows[sig] <= 1
    /\ \A i \in Processed :
          (requests[i].state = "done" /\ requests[i].redelivered # {})
              => requests[i].logged = <<>>

\* C20: an authenticated request is answered 200 before the processing of
\* its payload starts, the answer is 200 however the processing ends, and
\* a processing that fails is logged.
C20_AcknowledgedBeforeProcessing ==
    \A i \in DOMAIN requests :
        ValidateWebhookSecret(requests[i].request) =>
            /\ requests[i].response = Some(200)
            /\ i \in Processed => requests[i].acknowledged
            /\ requests[i].state = "failed"
                  => requests[i].logged = <<"Webhook processing failed">>

\* an authenticated request whose processing failed, and one whose
\* processing went to its end, both answered 200
C20_Witness ==
    /\ \E i \in DOMAIN requests :
          /\ ValidateWebhookSecret(requests[i].request)
          /\ requests[i].state = "failed"
          /\ requests[i].response = Some(200)
          /\ requests[i].acknowledged
    /\ \E i \in DOMAIN requests :
          /\ requests[i].state = "done"
          /\ requests[i].response = Some(200)
          /\ swapRows[requests[i].request.body.items[1][1].signature] = 1

\* the signatures of the swaps that the batch of request i carries
BatchSwaps(i) ==
    LET items == requests[i].request.body.items IN
    {sig \in Sigs : \E k \in DOMAIN items : items[k] = Some(SwapOfSignature(sig))}

\* C28: once the payload of a request has been processed, every swap its
\* batch carries has its row in the swaps table, whatever the other
\* elements of the batch are: an element whose extraction throws, or an
\* empty element.
C28_BatchFailureIsolated ==
    \A i \in Processed :
        \A sig \in BatchSwaps(i) : swapRows[sig] = 1

\* the isolation of an extraction that throws: the swap that follows the
\* throwing event has its row, unless a batch that failed carried it before
ThrowingSiblingIsolated ==
    \A i \in Processed :
        (/\ requests[i].request.body = ThrowingThenSwap
         /\ \A j \in Processed : requests[j].state = "failed" => 1 \notin BatchSwaps(j))
            => swapRows[1] = 1

----------------------------------------------------------------------------
(* Claims about the swap metrics, checked under SpecMetrics                 *)

\* the swaps of the last call that are in the window of `minutes` minutes
InWindow(minutes) ==
    {i \in DOMAIN aggregated[1].swaps :
        aggregated[1].swaps[i].ts >= aggregated[1].at - minutes * 60}

RECURSIVE SumOver(_, _)
SumOver(f, indexes) ==
    IF indexes = {} THEN 0
    ELSE LET i == CHOOSE j \in indexes : TRUE IN f[i] + SumOver(f, indexes \ {i})

VolumeOf(indexes) ==
    SumOver([i \in DOMAIN aggregated[1].swaps |-> aggregated[1].swaps[i].amount_usd],
            indexes)

BuyersOf(indexes) == {aggregated[1].swaps[i].buyer : i \in indexes} \ {NULL}

SellersOf(indexes) == {aggregated[1].swaps[i].seller : i \in indexes} \ {NULL}

\* C25: every statistic of a window is computed over the swaps of that
\* window only: the counts, the volumes, the distinct buyers and the distinct
\* sellers of the 5-minute and of the 1-minute window; unique_sellers_5m is
\* the number of distinct sellers among the swaps of the last 5 minutes; an
\* empty buyer or seller is counted nowhere.
C25_WindowedStatistics ==
    aggregated # None =>
        LET r == aggregated[1].result IN
        /\ r.swaps_5m = Cardinality(InWindow(5))
        /\ r.volume_usd_5m = VolumeOf(InWindow(5))
        /\ r.unique_buyers_5m = Cardinality(BuyersOf(InWindow(5)))
        /\ r.unique_sellers_5m = Cardinality(SellersOf(InWindow(5)))
        /\ r.swaps_1m = Cardinality(InWindow(1))
        /\ r.volume_usd_1m = VolumeOf(InWindow(1))
        /\ r.unique_buyers_1m = Cardinality(BuyersOf(InWindow(1)))
        /\ r.unique_sellers_1m = Cardinality(SellersOf(InWindow(1)))

\* the rearrangements of a sequence
Rearrangements(seq) ==
    {[i \in DOMAIN seq |-> seq[p[i]]] :
        p \in {q \in [DOMAIN seq -> DOMAIN seq] : \A i, j \in DOMAIN seq :
                                                   q[i] = q[j] => i = j}}

SnapshotFields ==
    {"swaps_1m", "swaps_5m", "swaps_15m", "unique_buyers_1m", "unique_buyers_5m",
     "unique_buyers_15m", "unique_sellers_1m", "unique_sellers_5m", "volume_usd_1m",
     "volume_usd_5m", "volume_usd_15m", "buy_volume_usd_1m", "sell_volume_usd_1m"}

\* C26: when the query returns no swap the snapshot has every field equal
\* to zero, and whatever the swaps it is the snapshot of every
\* rearrangement of them.
C26_ZeroSnapshotAndOrderIndependence ==
    aggregated # None =>
        /\ aggregated[1].swaps = <<>>
              => /\ DOMAIN aggregated[1].result = SnapshotFields
                 /\ \A f \in SnapshotFields : aggregated[1].result[f] = 0
        /\ \A swaps \in Rearrangements(aggregated[1].swaps) :
              Aggregate(swaps, aggregated[1].at) = aggregated[1].result

\* the table holds swaps, all of them older than fifteen minutes at the time
\* of the call
C26_Witness ==
    /\ aggregated # None
    /\ aggregated[1].swaps = <<>>
    /\ aggregated[1].at > StartTime
    /\ aggregated[1].result.swaps_15m = 0

----------------------------------------------------------------------------
(* Claims about the enrichment worker, checked under SpecEnrich and          *)
(* SpecRetry                                                                 *)

\* the number of calls in a log of calls and sleeps
Calls(log) == Cardinality({k \in DOMAIN log : log[k].ev = "call"})

TransientAnswers == {"http503", "network"}

\* the attempts a fetch needs against the answers of the API, within the
\* ceiling
AttemptsNeeded(answers) ==
    IF \E k \in DOMAIN answers : answers[k] = "ok"
    THEN CHOOSE k \in DOMAIN answers :
            answers[k] = "ok" /\ \A j \in 1..(k - 1) : answers[j] # "ok"
    ELSE 3

\* C29: a fetch of enrichToken whose request fails is made again, up to 3
\* attempts in all; when all of them fail the token's last_enrich_errors
\* names the fetch; the enrichment goes to its end all the same.
C29_TransientFailureRetriedThenRecorded ==
    enrichment # None =>
        /\ enrichment[1].updated
        /\ \A s \in DOMAIN Stages :
              LET answers == enrichment[1].answers[s] IN
              /\ Calls(enrichment[1].logs[s]) = AttemptsNeeded(answers)
              /\ (\A k \in DOMAIN answers : answers[k] \in TransientAnswers)
                    => \E e \in Range(tokenRow.last_enrich_errors) : e.stage = Stages[s]

\* C30: retryWithBackoff calls the function n times, n from 1 to 3, with a
\* sleep of 1000 * 2^(k-1) ms between call k and call k+1 and nothing
\* after call n; the calls before the last threw errors of a status other
\* than 404 and 400; if call n returns, its value is returned; if it
\* throws, its error is thrown, and then n is 3 or the status is 404 or 400.
C30_RetryWithBackoff ==
    retried # None =>
        LET fn == retried[1].fn
            log == retried[1].log
            n == Calls(log)
        IN
        /\ n \in 1..3
        /\ Len(log) = 2 * n - 1
        /\ \A k \in 1..n : log[2 * k - 1] = [ev |-> "call", ms |-> 0]
        /\ \A k \in 1..(n - 1) : log[2 * k] = [ev |-> "sleep", ms |-> 1000 * 2^(k - 1)]
        /\ \A k \in 1..(n - 1) : fn[k].kind = "throw" /\ fn[k].status \notin {404, 400}
        /\ fn[n].kind = "return"
              => retried[1].returned = Some(fn[n].value) /\ retried[1].thrown = None
        /\ fn[n].kind = "throw"
              => /\ retried[1].returned = None
                 /\ retried[1].thrown = Some(fn[n])
                 /\ n = 3 \/ fn[n].status \in {404, 400}

\* three failed attempts: sleeps of 1000 and 2000 ms between them, none after
C30_Witness ==
    /\ retried # None
    /\ Calls(retried[1].log) = 3
    /\ Len(retried[1].log) = 5
    /\ retried[1].log[4].ms = 2000
    /\ retried[1].thrown # None

----------------------------------------------------------------------------
(* Claims about the process and the worker loops, checked under SpecWorker  *)
(* and SpecWorkerLive                                                       *)

\* the loops of worker w that are in a batch
BatchesOf(w) == {k \in DOMAIN workers[w].loops : workers[w].loops[k].pc = "batch"}

\* the last call from outside was the start function of worker w, made in
\* this step
StartCalled(w) ==
    /\ lastCall' # lastCall
    /\ lastCall'[1].name = "start"
    /\ lastCall'[1].worker = w

\* C31: a worker has at most one loop and at most one batch in flight; a
\* batch starts either with a new loop or from a loop whose sleep of the
\* whole interval has elapsed after its previous batch; a call of the start
\* function while the loop is active changes nothing.
C31_NoOverlappingBatches ==
    /\ [](\A w \in Workers :
            Len(workers[w].loops) <= 1 /\ Cardinality(BatchesOf(w)) <= 1)
    /\ [][\A w \in Workers :
            /\ (w \in InFlight' /\ w \notin InFlight)
                  => \/ workers[w].loops = <<>>
                     \/ workers[w].loops = <<[pc |-> "sleep", remaining |-> 0]>>
            /\ (workers[w].isRunning /\ StartCalled(w)) => workers'[w] = workers[w]]_vars

\* the start function was called on a worker whose loop, past its first
\* batch, is in a batch again
C31_Witness ==
    \E w \in Workers :
        /\ lastCall = Some([name |-> "start", worker |-> w, n |-> 1])
        /\ lastBatch # None /\ lastBatch[1].worker = w
        /\ workers[w].loops = <<InBatch>>

\* C39: while a running worker is asked to stop, no batch of it starts and
\* the request stands, whatever calls of the start function are made; and
\* the loop then leaves the running state, as long as the process lives.
C39_StopWinsOverStart ==
    /\ [][\A w \in Workers :
            (workers[w].shouldStop /\ workers[w].isRunning)
                => /\ w \in InFlight' => w \in InFlight
                   /\ workers'[w].shouldStop \/ ~workers'[w].isRunning
                   /\ StartCalled(w) => workers'[w] = workers[w]]_vars
    /\ \A w \in Workers :
          (workers[w].shouldStop /\ workers[w].isRunning)
              ~> (~workers[w].isRunning \/ exitCode # None)

\* the loop has ended after a stop, the last call being a start that found
\* it still running
C39_Witness ==
    \E w \in Workers :
        /\ lastCall # None /\ lastCall[1].name = "start" /\ lastCall[1].worker = w
        /\ ~workers[w].isRunning
        /\ workers[w].shouldStop
        /\ shutdownPc = "none"

\* C32: when the process exits at the end of a shutdown, no worker has a
\* batch in flight: a batch that was running when the signal came has run
\* to its end before process.exit.
C32_ShutdownDrainsBatches ==
    exitCode = Some(0) => interrupted = {}

\* a worker was started: its module says so or it has a loop
Started(w) == workers[w].isRunning \/ workers[w].loops # <<>>

\* C33: the server listens and a worker is started only if testConnection
\* returned true, a worker only once the server has listened; when
\* testConnection returns false the process exits with code 1, the server
\* not listening and no worker started.
C33_NoTrafficWithoutStorage ==
    /\ listening => dbTest = Some(TRUE)
    /\ \A w \in Workers : Started(w) => dbTest = Some(TRUE) /\ mainPc = "started"
    /\ dbTest = Some(FALSE)
          => /\ exitCode = Some(1)
             /\ ~listening
             /\ \A w \in Workers : ~Started(w)

\* storage could not be reached at startup
C33_Witness ==
    /\ dbTest = Some(FALSE)
    /\ exitCode = Some(1)
    /\ mainPc = "exit"

\* C34: in a batch whose tokens could be listed every token whose
\* enrichment or scoring succeeds is completed, whatever happens to the
\* other tokens, and nothing escapes the batch; after any batch, one that
\* an exception escaped included, the loop of the worker is asleep for its
\* interval and the worker is running.
C34_FailuresAreIsolated ==
    /\ [](lastBatch # None =>
            /\ lastBatch[1].listing = "ok"
                  => /\ lastBatch[1].completed =
                           {i \in DOMAIN lastBatch[1].outcomes :
                               lastBatch[1].outcomes[i] = "ok"}
                     /\ ~lastBatch[1].escaped
            /\ lastBatch[1].listing = "throw" => lastBatch[1].escaped)
    /\ [][lastBatch' # lastBatch =>
            LET w == lastBatch'[1].worker IN
            /\ workers'[w].isRunning
            /\ workers'[w].loops = <<[pc |-> "sleep", remaining |-> IntervalOf(w)]>>]_vars

\* the first token of a scoring batch threw and the second was scored
C34_Witness ==
    /\ lastBatch # None
    /\ lastBatch[1].worker = "score"
    /\ lastBatch[1].outcomes = <<"throw", "ok">>
    /\ lastBatch[1].completed = {2}

----------------------------------------------------------------------------
(* Claims about the LRUCache class, checked under SpecLRU *)

\* the keys the object holds
Cached == IF lru = None THEN {} ELSE Range(lru[1].cache)

\* C35: an LRUCache constructed with maxSize >= 1 never holds more than
\* maxSize keys, and a key leaves it only in a delete of that key, in a
\* clear, or in an add of another key to the full cache, of which it is then
\* the oldest key; never in a step where only time passes.
C35_BoundedAndNoExpiryByAge ==
    /\ [](lru # None => Len(lru[1].cache) <= lru[1].maxSize)
    /\ [][\A key \in Cached \ Cached' :
            /\ now' = now
            /\ \/ lruOp'.name = "delete" /\ lruOp'.key = key
               \/ lruOp'.name = "clear"
               \/ /\ lruOp'.name = "add"
                  /\ lruOp'.key # key
                  /\ lruOp'.key \notin Cached
                  /\ Len(lru[1].cache) = lru[1].maxSize
                  /\ key = Head(lru[1].cache)]_vars
    /\ [][now' # now => lru' = lru]_vars

\* a full cache of more than one key after an add, the clock having advanced
C35_Witness ==
    /\ lru # None
    /\ lru[1].maxSize > 1
    /\ Len(lru[1].cache) = lru[1].maxSize
    /\ lruOp.name = "add"
    /\ Head(lru[1].cache) # 1
    /\ now > StartTime

----------------------------------------------------------------------------
(* Claims about deliveries in flight together, checked under SpecDeliveries *)

\* the signatures for which the parse of callback i returned a record
ObtainedBy(i) ==
    {callbacks[i].trace[k].tx[1].signature :
        k \in {n \in DOMAIN callbacks[i].trace :
                  /\ callbacks[i].trace[n].tx # None
                  /\ callbacks[i].trace[n].parsed # EmptyParsed
                  /\ callbacks[i].trace[n].parsed # Thrown}} \ {0}

\* the signatures the payload of request i carries
CarriedBy(i) ==
    {TransactionsOf(requests[i].immediate[1])[k][1].signature :
        k \in {n \in DOMAIN TransactionsOf(requests[i].immediate[1]) :
                  TransactionsOf(requests[i].immediate[1])[n] # None}} \ {0}

\* callback i begins in this step
Begins(i) == callbacks[i].pc = "none" /\ callbacks'[i].pc # "none"

\* C36: whatever the interleaving of the callbacks, no signature has a record
\* returned to two deliveries; the stretch in which a callback begins returns
\* records only for signatures that were not marked when it began and leaves
\* every signature of its payload marked, and no stretch that resumes a
\* callback touches the signature cache.
C36_OneRecordPerSignature ==
    /\ [](\A i, j \in DOMAIN requests :
            i # j => ObtainedBy(i) \cap ObtainedBy(j) = {})
    /\ [][\A i \in DOMAIN requests :
            /\ Begins(i) => /\ ObtainedBy(i)' \cap Range(signatureCache) = {}
                            /\ CarriedBy(i) \subseteq Range(signatureCache')
            /\ (callbacks[i].pc = "awaiting" /\ callbacks'[i] # callbacks[i])
                  => signatureCache' = signatureCache]_vars

\* a delivery is dropped whole while the delivery that obtained the record
\* of its signature still awaits storage
C36_Witness ==
    \E i, j \in DOMAIN requests :
        /\ i # j
        /\ callbacks[i].pc = "awaiting"
        /\ callbacks[j].pc = "done"
        /\ CarriedBy(j) # {}
        /\ CarriedBy(j) \subseteq ObtainedBy(i)
        /\ ObtainedBy(j) = {}

\* the signatures of the swaps whose write callback i saw fail
FailedWrites(i) ==
    {callbacks[i].failed[k].item.signature :
        k \in {n \in DOMAIN callbacks[i].failed : callbacks[i].failed[n].kind = "swap"}}

\* the signatures of the events of callback i whose extraction threw or
\* returned nothing
Unextracted(i) ==
    {callbacks[i].trace[k].tx[1].signature :
        k \in {n \in DOMAIN callbacks[i].trace :
                  /\ callbacks[i].trace[n].tx # None
                  /\ ~callbacks[i].trace[n].recorded
                  /\ callbacks[i].trace[n].parsed \in {EmptyParsed, Thrown}}} \ {0}

\* C37: the parse of a payload leaves every signature it carries marked,
\* whether the extraction returned a record, returned nothing or threw; a
\* signature leaves the cache only by eviction in the parse of another
\* payload, which leaves the cache full, never when a write fails; a delivery that begins while a
\* signature of its payload is marked gets no record for it; and a swap whose
\* write failed has no row afterwards, whatever is delivered again.
C37_MarkedBeforeExtractionNeverUnmarked ==
    /\ [][\A i \in DOMAIN requests :
            Begins(i) => /\ CarriedBy(i) \subseteq Range(signatureCache')
                         /\ ObtainedBy(i)' \cap Range(signatureCache) = {}
                         /\ swapRows' = swapRows]_vars
    /\ [][\A s \in Range(signatureCache) \ Range(signatureCache') :
            /\ Len(signatureCache') = SigCacheMax
            /\ \E i \in DOMAIN requests : Begins(i) /\ s \notin CarriedBy(i)]_vars
    /\ [](\A i \in DOMAIN requests : \A s \in FailedWrites(i) : swapRows[s] = 0)

\* the write of a swap failed, the event was delivered again and dropped, and
\* the swap has no row
C37_Witness ==
    \E i, j \in DOMAIN requests, s \in Sigs :
        /\ i # j
        /\ s \in FailedWrites(i)
        /\ callbacks[i].pc = "done"
        /\ callbacks[j].pc = "done"
        /\ s \in CarriedBy(j)
        /\ s \notin ObtainedBy(j)
        /\ s \in Range(signatureCache)
        /\ swapRows[s] = 0

\* an event whose extraction threw was delivered again and dropped
C37_WitnessThrown ==
    \E i, j \in DOMAIN requests, s \in Sigs :
        /\ i < j
        /\ s \in Unextracted(i)
        /\ callbacks[j].pc # "none"
        /\ s \in CarriedBy(j)
        /\ s \notin ObtainedBy(j)

----------------------------------------------------------------------------
(* A further claim about the normalizer, checked under SpecParse *)

\* the turns of the last parseWebhookPayload call whose event has no signature
UnsignedTurns(tr) == {k \in DOMAIN tr : tr[k].tx # None /\ tr[k].tx[1].signature = 0}

\* C40: an event without a signature gets what its extraction returns at
\* every turn, whatever the cache holds and however often it was fed before,
\* so two occurrences in one payload give the same record twice; it leaves
\* the signature cache as it was: a payload with no signed event changes
\* neither the keys of the cache nor their order.
C40_UnsignedEventsNotGated ==
    [][/\ \A k \in UnsignedTurns(trace') :
             /\ trace'[k].parsed = ExtractByType(trace'[k].tx[1], now)
             /\ ~trace'[k].recorded
       /\ (UnsignedTurns(trace') \cup {k \in DOMAIN trace' : trace'[k].tx = None}
              = DOMAIN trace')
             => /\ signatureCache' = signatureCache
                /\ 0 \notin Range(signatureCache')
                /\ Len(results'.swaps)
                      = Cardinality({k \in DOMAIN trace' : trace'[k].parsed.swap # None})]_vars

\* the unsigned sale fed twice in one payload, the cache holding signatures:
\* its swap record is returned twice
C40_Witness ==
    /\ Len(trace) = 2
    /\ trace[1].tx = Some(SwapSell)
    /\ trace[2].tx = Some(SwapSell)
    /\ Len(results.swaps) = 2
    /\ results.swaps[1] = results.swaps[2]
    /\ signatureCache # <<>>

----------------------------------------------------------------------------
(* A further claim about the alert state machine, checked under SpecAlert *)

\* the row changed in one of the fields that record a notification
NotificationFieldsChanged(before, after) ==
    \/ after.last_score # before.last_score
    \/ after.last_risk_flags # before.last_risk_flags
    \/ after.last_sent_at # before.last_sent_at
    \/ after.telegram_message_id # before.telegram_message_id

\* what every alert cycle keeps, whatever Telegram and the table do: a
\* recorded score stays recorded, and the notification fields change only in
\* the one write that follows a dispatch that gave a result, all set at once
ForwardOnly(before, after, c) ==
    /\ before.last_score # None => after.last_score # None
    /\ after.alert_count >= before.alert_count
    /\ (NotificationFieldsChanged(before, after) \/ after.alert_count # before.alert_count)
          => /\ c.dispatch.result # None
             /\ c.dispatch.updated
             /\ after.last_score = Some(c.input.score)
             /\ after.last_risk_flags = c.input.risk_flags
             /\ after.last_sent_at = Some(now)
             /\ after.telegram_message_id = Some(Handle(c.dispatch.result[1]))

\* C38 as stated: alert_count grows by exactly 1 in a cycle whose dispatch
\* (new send or edit) gave a result, and by 0 in every other cycle.
C38_CountsEveryDispatch ==
    [][(cycle' # None /\ now' = now)
        => LET before == GetOrCreateAlert(alert)[1] IN
           /\ ForwardOnly(before, alert'[1], cycle'[1])
           /\ alert'[1].alert_count
                 = before.alert_count
                      + (IF cycle'[1].dispatch.result # None THEN 1 ELSE 0)]_vars

\* C38, amended: alert_count grows by exactly 1 in a cycle whose dispatch gave
\* a result and whose write of the row succeeded, and by 0 in every other
\* cycle, a cycle whose message went out but whose write failed included.
C38_CountsRecordedDispatches ==
    [][(cycle' # None /\ now' = now)
        => LET before == GetOrCreateAlert(alert)[1] IN
           /\ ForwardOnly(before, alert'[1], cycle'[1])
           /\ alert'[1].alert_count
                 = before.alert_count
                      + (IF cycle'[1].dispatch.result # None /\ cycle'[1].dispatch.updated
                         THEN 1 ELSE 0)
           /\ (cycle'[1].dispatch.result # None /\ ~cycle'[1].dispatch.updated)
                 => alert'[1] = before]_vars

\* a message went out for an Alerted token, the write of the row failed, and
\* the row is as it was, with the count of the one recorded notification
C38_Witness ==
    /\ cycle # None
    /\ cycle[1].dispatch.result # None
    /\ ~cycle[1].dispatch.updated
    /\ cycle[1].prior # None
    /\ alert = cycle[1].prior
    /\ alert[1].last_score # None
    /\ alert[1].alert_count = 1

====
